---- MODULE Spec2Model ----
(***************************************************************************)
(* Plugin lifecycle supervisor of matterbridge (src/src/plugins.ts).       *)
(*                                                                         *)
(* One registered plugin record and a bounded number of lifecycle calls    *)
(* (load, start, configure, shutdown) that may be in flight at once.  The  *)
(* methods are async functions: a call runs synchronously up to its next   *)
(* await, is suspended there, and is resumed later; between the two any    *)
(* other call may run.  One action of the model is one such synchronous    *)
(* block.  Whether an awaited operation (file read, import, plugin hook)   *)
(* resolves or rejects is chosen nondeterministically.                     *)
(***************************************************************************)
EXTENDS Integers, FiniteSets, Sequences, Bags, TLC

\* ------------------------------------------------------------------ bounds

\* Lifecycle calls that may be in flight at the same time.
MaxCalls == 2

Calls == 1..MaxCalls

\* ------------------------------------------------------------ program values

\* plugin.platform === undefined
NoPlatform == 0

\* plugin.registeredDevices / plugin.addedDevices === undefined
NoCount == -1

VARIABLES
  plugin,   \* the RegisteredPlugin record held by the registry
  calls,    \* calls[c]: the lifecycle call suspended in slot c (Idle: none)
  last,     \* the call that returned last: what it returned and what it logged
  storage,  \* what saveToStorage last wrote for the record
  registry, \* _plugins: the Map of records, as its entries in insertion order
  stored,   \* the array kept under the key 'plugins' of nodeContext
  manifest, \* manifest[p]: the package.json file at path p
  returned, \* the registry method called last, its argument and what it returned
  inflight, \* the bag of suspended wsMessageHandler calls and running commands
  wslast,   \* what the last step of the dispatcher did, for which message
  cleared,  \* a shutdown call still in flight has reset the record's error
  pending,  \* the add, enable, disable and remove calls suspended before their change
  writes,   \* the arrays handed to nodeContext.set and not stored yet, oldest first
  writeFailed, \* a nodeContext.set has rejected
  console   \* the state and the refs of the console client's WebSocketProvider

vars ==
  <<plugin, calls, last, storage, registry, stored, manifest, returned,
    inflight, wslast, cleared, pending, writes, writeFailed, console>>

\* What is kept of the past of the record and, further down, the state of the
\* console client.
auxVars == <<cleared, pending, writes, writeFailed, console>>

\* The registry calls in flight and the writes they await.
saveVars == <<pending, writes, writeFailed>>

\* The state of the host, which the console client does not touch.
hostVars ==
  <<plugin, calls, last, storage, registry, stored, manifest, returned,
    inflight, wslast, cleared, pending, writes, writeFailed>>

\* The state of the lifecycle calls on one record.
lifeVars == <<plugin, calls, last, storage>>

\* The state of the registry and what it reads and writes.
regVars == <<registry, stored, manifest>>

\* What the callers of the registry and the clients of the host observe.
ctlVars == <<returned, inflight, wslast>>

\* The state of the dispatcher.
wsVars == <<inflight, wslast>>

\* A record as add() creates it (enabled, no transient field set).
NewPlugin ==
  [enabled |-> TRUE, loaded |-> FALSE, started |-> FALSE, configured |-> FALSE,
   error |-> FALSE, connected |-> FALSE, platform |-> NoPlatform,
   registeredDevices |-> NoCount, addedDevices |-> NoCount]

\* A free slot: no call suspended in it.
\*   op    the method called: load, start, configure, shutdown
\*   pc    the await the call is suspended at
\*   flag  the call's boolean argument (load: start, start: configure,
\*         shutdown: removeAllDevices)
Idle ==
  [op |-> "none", pc |-> "idle", flag |-> FALSE]

\* No call has returned yet.
\*   res    what was returned: "undefined", "plugin" or "platform"
\*   plat   the platform handle returned when res is "platform"
\*   saved  whether the call reached savePluginConfig
NoReturn ==
  [op |-> "none", res |-> "none", log |-> "none",
   plat |-> NoPlatform, saved |-> FALSE]

\* The projection saveToStorage writes (name, path, ... are constant here).
Persisted(rec) == [enabled |-> rec.enabled]

\* ------------------------------------------------------- guards and updates

\* A load() that lacks the enabled check.
LoadGuardIgnoresEnabled(rec) ==
  IF rec.platform # NoPlatform THEN "already loaded" ELSE "ok"

\* load(): the two early returns, by the condition logged.
LoadGuard(rec) ==
  IF ~rec.enabled THEN "not enabled"
  ELSE IF rec.platform # NoPlatform THEN "already loaded"
  ELSE "ok"

\* load(): the record after the factory returned platform h.
BindPlatform(rec, h) ==
  [rec EXCEPT !.platform = h, !.loaded = TRUE,
              !.registeredDevices = 0, !.addedDevices = 0]

\* A start() that lacks the started check.
StartGuardIgnoresStarted(rec) ==
  IF ~rec.loaded THEN "not loaded"
  ELSE IF rec.platform = NoPlatform THEN "no platform found"
  ELSE "ok"

\* start(): the three early returns, by the condition logged.
StartGuard(rec) ==
  IF ~rec.loaded THEN "not loaded"
  ELSE IF rec.platform = NoPlatform THEN "no platform found"
  ELSE IF rec.started THEN "already started"
  ELSE "ok"

\* A configure() that lacks the configured check.
ConfigureGuardIgnoresConfigured(rec) ==
  IF ~rec.loaded THEN "not loaded"
  ELSE IF ~rec.started THEN "not started"
  ELSE IF rec.platform = NoPlatform THEN "no platform found"
  ELSE "ok"

\* configure(): the four early returns, by the condition logged.
ConfigureGuard(rec) ==
  IF ~rec.loaded THEN "not loaded"
  ELSE IF ~rec.started THEN "not started"
  ELSE IF rec.platform = NoPlatform THEN "no platform found"
  ELSE IF rec.configured THEN "already configured"
  ELSE "ok"

\* A shutdown() that requires only a loaded record with its platform.
ShutdownGuardLoadedOnly(rec) ==
  IF ~rec.loaded THEN "not loaded"
  ELSE IF rec.platform = NoPlatform THEN "no platform found"
  ELSE "ok"

\* shutdown(): the four early returns, by the condition logged.
ShutdownGuard(rec) ==
  IF ~rec.loaded THEN "not loaded"
  ELSE IF ~rec.started THEN "not started"
  ELSE IF ~rec.configured THEN "not configured"
  ELSE IF rec.platform = NoPlatform THEN "no platform found"
  ELSE "ok"

\* A shutdown() that forgets plugin.platform = undefined.
ClearOnShutdownKeepsPlatform(rec) ==
  [rec EXCEPT !.error = FALSE, !.loaded = FALSE, !.started = FALSE,
              !.configured = FALSE, !.connected = FALSE,
              !.registeredDevices = NoCount, !.addedDevices = NoCount]

\* A shutdown() that forgets plugin.connected = undefined.
ClearOnShutdownKeepsConnected(rec) ==
  [rec EXCEPT !.error = FALSE, !.loaded = FALSE, !.started = FALSE,
              !.configured = FALSE, !.platform = NoPlatform,
              !.registeredDevices = NoCount, !.addedDevices = NoCount]

\* shutdown(): the assignments after the shutdown hook resolved.
ClearOnShutdown(rec) ==
  [rec EXCEPT !.error = FALSE, !.loaded = FALSE, !.started = FALSE,
              !.configured = FALSE, !.connected = FALSE,
              !.platform = NoPlatform,
              !.registeredDevices = NoCount, !.addedDevices = NoCount]

\* A catch block that also rolls the start back.
MarkErrorRollsBack(rec) == [rec EXCEPT !.error = TRUE, !.started = FALSE]

\* plugin.error = true in a catch block (load, start, configure).
MarkError(rec) == [rec EXCEPT !.error = TRUE]

\* shutdown(): the catch block only logs.
ShutdownCatch(rec) == rec

\* A load() that passes its start argument on as the configure argument.
StartConfigureArgFromLoad(call) == call.flag

\* The configure argument of the start() a call is running: load() calls
\* start(plugin, message, false).
StartConfigureArg(call) == IF call.op = "load" THEN FALSE ELSE call.flag

\* plugin.started = true after onStart resolved.
MarkStarted(rec) == [rec EXCEPT !.started = TRUE]

\* plugin.configured = true after onConfigure resolved.
MarkConfigured(rec) == [rec EXCEPT !.configured = TRUE]

\* ---------------------------------------------------------------- helpers

IsIdle(c) == calls[c].pc = "idle"

\* A new call takes the lowest free slot (the slots are interchangeable).
FreeSlot(c) == IsIdle(c) /\ \A d \in Calls : d < c => ~IsIdle(d)

\* The calls suspended at an await of theirs.
InFlight == {c \in Calls : ~IsIdle(c)}

\* A call of op is made in slot c and is suspended at the await pc.
Suspend(c, op, flag, pc) ==
  /\ calls' = [calls EXCEPT ![c] = [op |-> op, pc |-> pc, flag |-> flag]]
  /\ UNCHANGED last

\* A call of op returns res from its guards, without an await, logging log.
Refuse(op, res, log) ==
  /\ last' = [op |-> op, res |-> res, log |-> log,
              plat |-> IF res = "platform" THEN plugin.platform ELSE NoPlatform,
              saved |-> FALSE]
  /\ UNCHANGED calls

\* The call suspended in slot c moves on to the await pc.
Goto(c, pc) ==
  /\ calls' = [calls EXCEPT ![c].pc = pc]
  /\ UNCHANGED last

\* The call suspended in slot c returns res, having logged log.
\* A load returns the platform its own factory call created, numbered c.
Finish(c, res, log) ==
  /\ calls' = [calls EXCEPT ![c] = Idle]
  /\ last' = [op |-> calls[c].op, res |-> res, log |-> log,
              plat |-> IF res = "platform" THEN c ELSE NoPlatform,
              saved |-> FALSE]

\* configure() returns the plugin after savePluginConfig was called.
FinishSaved(c) ==
  /\ calls' = [calls EXCEPT ![c] = Idle]
  /\ last' = [op |-> calls[c].op, res |-> "plugin", log |-> "configured",
              plat |-> NoPlatform, saved |-> TRUE]

\* --------------------------------------------------------------- registry

\* The places where a package.json can be.
Paths == {"pa", "pb"}

\* resolve() === null
NoPath == ""

\* The names a package.json can declare.
Names == {"na", "nb"}

\* packageJson.name === undefined
NoName == ""

\* The version a package.json declares: the package named "nb" is the newer.
VersionOf(n) == IF n = "na" THEN "1.0.0" ELSE "2.0.0"

\* qrPairingCode / manualPairingCode === undefined
NoCode == ""

\* configJson / schemaJson === undefined
NoJson == ""

\* A package.json declaring name n, with its version, description and author.
Manifest(n) ==
  [readable |-> TRUE, name |-> n, version |-> VersionOf(n),
   description |-> "description", author |-> "author"]

\* No file, or one that JSON.parse rejects.
Unreadable ==
  [readable |-> FALSE, name |-> NoName, version |-> "",
   description |-> "", author |-> ""]

ManifestFiles == {Manifest(n) : n \in Names} \cup {Unreadable}

\* The package.json of the global modules directory that a package name leads to.
GlobalPath(n) == IF n = "na" THEN "pa" ELSE "pb"

\* The name the package.json at path p declares when it is installed.
InstalledName(p) == IF p = "pa" THEN "na" ELSE "nb"

\* What add, enable, disable and remove can be called with.
Inputs == Paths \cup Names \cup {""}

\* x || d, x ?? d on a string that is absent when empty.
OrElse(x, d) == IF x = "" THEN d ELSE x

\* The fields saveToStorage copies.
PersistedFields ==
  {"name", "path", "type", "version", "description", "author", "enabled",
   "qrPairingCode", "manualPairingCode"}

\* The fields of a record that live only in memory.
TransientFields ==
  {"loaded", "started", "configured", "error", "connected",
   "registeredDevices", "addedDevices", "platform", "configJson", "schemaJson"}

\* The fields add() and the stored objects leave undefined.
Transient ==
  [loaded |-> FALSE, started |-> FALSE, configured |-> FALSE, error |-> FALSE,
   connected |-> FALSE, platform |-> NoPlatform,
   registeredDevices |-> NoCount, addedDevices |-> NoCount,
   configJson |-> NoJson, schemaJson |-> NoJson]

\* add(): the record created from the package.json m found at path p.
AddedRecord(m, p) ==
  [name |-> m.name, enabled |-> TRUE, path |-> p, type |-> "",
   version |-> m.version, description |-> m.description, author |-> m.author,
   qrPairingCode |-> NoCode, manualPairingCode |-> NoCode] @@ Transient

\* A saveToStorage() that also copies lifecycle fields.
PersistedRecordWithFlags(rec) ==
  [name |-> rec.name, path |-> rec.path, type |-> rec.type,
   version |-> rec.version, description |-> rec.description,
   author |-> rec.author, enabled |-> rec.enabled,
   qrPairingCode |-> rec.qrPairingCode,
   manualPairingCode |-> rec.manualPairingCode,
   loaded |-> rec.loaded, platform |-> rec.platform]

\* saveToStorage(): the object pushed for one record.
PersistedRecord(rec) ==
  [name |-> rec.name, path |-> rec.path, type |-> rec.type,
   version |-> rec.version, description |-> rec.description,
   author |-> rec.author, enabled |-> rec.enabled,
   qrPairingCode |-> rec.qrPairingCode,
   manualPairingCode |-> rec.manualPairingCode]

\* loadFromStorage(): a stored object as a record of the registry.
FromStored(p) == p @@ Transient

\* Map.has, the place of a key, Map.set and Map.delete on the entries in
\* insertion order.
HasKey(reg, k) == \E i \in DOMAIN reg : reg[i].key = k

IndexOf(reg, k) == CHOOSE i \in DOMAIN reg : reg[i].key = k

MapSet(reg, k, rec) ==
  IF HasKey(reg, k) THEN [reg EXCEPT ![IndexOf(reg, k)].rec = rec]
  ELSE Append(reg, [key |-> k, rec |-> rec])

MapDelete(reg, k) == SelectSeq(reg, LAMBDA e : e.key # k)

\* saveToStorage(): the array written, one object per value of the map.
SavedList(reg) == [i \in DOMAIN reg |-> PersistedRecord(reg[i].rec)]

\* loadFromStorage(): every object of the array is set under its name.
RECURSIVE LoadInto(_, _)
LoadInto(reg, list) ==
  IF list = <<>> THEN reg
  ELSE LoadInto(MapSet(reg, Head(list).name, FromStored(Head(list))),
                Tail(list))

\* A package.json that can be read and declares no name.
Nameless ==
  [readable |-> TRUE, name |-> NoName, version |-> "1.0.0",
   description |-> "description", author |-> "author"]

\* The path resolve() looks at for a name or path.
PathOf(input) == IF input \in Paths THEN input ELSE GlobalPath(input)

\* A resolve() that does not look for the name of the package.json.
ResolveIgnoresName(input) ==
  LET p == IF input \in Paths THEN input ELSE GlobalPath(input)
  IN  IF manifest[p].readable THEN p ELSE NoPath

\* resolve(): the path of the package.json a name or path leads to, when it
\* can be read and declares a name.
Resolve(input) ==
  LET p == IF input \in Paths THEN input ELSE GlobalPath(input)
  IN  IF manifest[p].readable /\ manifest[p].name # NoName THEN p ELSE NoPath

\* ------------------------------------------------------- control protocol

\* The websocket clients connected to the host.
Clients == {"c1", "c2"}

\* Values of the messages, as JSON.parse gives them and JSON.stringify takes
\* them: a value is a record with one field named after its type.
Undefined == [undefined |-> TRUE]

Num(n) == [number |-> n]

Str(s) == [string |-> s]

Bool(b) == [boolean |-> b]

Arr(seq) == [array |-> seq]

Obj(fields) == [object |-> fields]

\* typeof value === 'number', 'string'; a plain object.
IsNumber(v) == DOMAIN v = {"number"}

IsString(v) == DOMAIN v = {"string"}

IsObject(v) == DOMAIN v = {"object"}

\* isValidNumber(value): a number.
isValidNumber(v) == IsNumber(v)

\* isValidNumber(value, min): a number not below min.
isValidNumberMin(v, min) == IsNumber(v) /\ v.number >= min

\* isValidString(value): a non-empty string.
isValidString(v) == IsString(v) /\ v.string # ""

\* isValidString(value, minLength): a string of at least minLength characters.
isValidStringMin(v, minLength) == IsString(v) /\ Len(v.string) >= minLength

\* isValidObject(value): an object, not an array, not null.
isValidObject(v) == IsObject(v)

\* The host's identity in the envelopes.
HostIdentity == "Matterbridge"

\* WS_ID_LOG, WS_ID_REFRESH_NEEDED, WS_ID_RESTART_NEEDED
WS_ID_LOG == 0

WS_ID_REFRESH_NEEDED == 1

WS_ID_RESTART_NEEDED == 2

\* JSON.stringify(object): the keys whose value is undefined are left out.
Stringify(obj) ==
  [k \in {key \in DOMAIN obj : obj[key] # Undefined} |-> obj[k]]

\* The params of a request: the keys the handlers read, undefined when absent.
Params(password, packageName, pluginName, pluginParam, endpoint) ==
  Obj([password |-> password, packageName |-> packageName,
       pluginName |-> pluginName, plugin |-> pluginParam,
       endpoint |-> endpoint])

\* params: {}
NoParams == Params(Undefined, Undefined, Undefined, Undefined, Undefined)

\* An object with the five keys of an envelope.
Envelope(id, dst, src, method, params) ==
  [id |-> id, dst |-> dst, src |-> src, method |-> method, params |-> params]

\* A message JSON.parse rejects, and the message 'null'.
Garbage == [text |-> "{id:"]

JsonNull == [text |-> "null"]

\* A message that is the JSON text of the object data.
Json(data) == [text |-> "object", data |-> data]

\* JSON.parse(message.toString()) throws a SyntaxError.
ParseThrows(message) == message = Garbage

\* data.id throws a TypeError: JSON.parse gave null.
ReadThrows(message) == message = JsonNull

\* data = JSON.parse(message.toString()) when it is an object.
Parsed(message) == message.data

\* ------------------------------------------------------- what clients send

\* The plugin that has a device, one that has none, and a name too short.
EvePlugin == "matterbridge-eve"

OtherPlugin == "matterbridge-hue"

UnknownPlugin == "matterbridge-xyz"

ShortName == "eve"

\* this.devices, in the order forEach visits them: the plugin and the
\* endpoint number of each device and the names of its cluster servers.
Devices ==
  << [plugin |-> EvePlugin, number |-> 1, deviceName |-> "Eve door",
      serialNumber |-> "0x01", clusterServers |-> <<"Descriptor", "EveHistory">>] >>

\* The password kept under 'password' of nodeContext: none, or one.
StoredPasswords == {"", "secret"}

\* The id a client stamps on its requests, and a reserved push identifier
\* used as the id of a request.
RequestId == 42

ReservedId == WS_ID_RESTART_NEEDED

\* The methods the dispatcher routes, with the params sent with each.
MethodParams ==
  {<<"ping", NoParams>>, <<"/api/restart", NoParams>>,
   <<"/api/shutdown", NoParams>>, <<"/api/settings", NoParams>>,
   <<"/api/plugins", NoParams>>, <<"/api/devices", NoParams>>,
   <<"/api/devices",
     Params(Undefined, Undefined, Str(OtherPlugin), Undefined, Undefined)>>,
   <<"/api/reboot", NoParams>>}
  \cup {<<"/api/login", Params(pw, Undefined, Undefined, Undefined, Undefined)>> :
          pw \in {Undefined, Str("secret"), Str("wrong")}}
  \cup {<<m, Params(Undefined, pkg, Undefined, Undefined, Undefined)>> :
          m \in {"/api/install", "/api/uninstall"},
          pkg \in {Undefined, Str(ShortName), Str(EvePlugin)}}
  \cup {<<"/api/clusters", Params(Undefined, Undefined, Undefined, pl, ep)>> :
          pl \in {Str(ShortName), Str(EvePlugin)}, ep \in {Num(0), Num(1)}}
  \cup {<<"/api/clusters", Params(Undefined, Undefined, Undefined, pl, ep)>> :
          pl \in {Str(EvePlugin), Str(OtherPlugin)}, ep \in {Num(7), Str("1")}}
  \cup {<<"/api/clusters",
          Params(Undefined, Undefined, Undefined, Str(OtherPlugin), Num(1))>>}
  \cup {<<m, Params(Undefined, Undefined, Undefined, pl, Undefined)>> :
          m \in {"/api/select", "/api/select/entities"},
          pl \in {Str(ShortName), Str(EvePlugin), Str(OtherPlugin),
                  Str(UnknownPlugin)}}

\* A request of the console client.
Request(id, method, params) ==
  Envelope(Num(id), Str(HostIdentity), Str("Frontend"), Str(method), params)

\* The requests sent with a reserved identifier as their id.
ReservedIdRequests ==
  {Request(ReservedId, "ping", NoParams),
   Request(ReservedId, "/api/reboot", NoParams),
   Request(ReservedId, "/api/install",
           Params(Undefined, Str(EvePlugin), Undefined, Undefined, Undefined))}

\* The envelopes that pass the validation.
ValidEnvelopes ==
  {Request(RequestId, mp[1], mp[2]) : mp \in MethodParams}
  \cup ReservedIdRequests

\* Envelopes with one key missing or of the wrong kind, made from a clusters
\* request, and the empty object.
InvalidEnvelopes ==
  LET bases == {<<"/api/clusters",
                  Params(Undefined, Undefined, Undefined, Str(EvePlugin), Num(1))>>}
      ok(mp) == Request(RequestId, mp[1], mp[2])
  IN  UNION {
        {[ok(mp) EXCEPT !.id = v] : v \in {Undefined, Str("42")}}
        \cup {[ok(mp) EXCEPT !.dst = v] : v \in {Undefined, Str(""), Str("Frontend")}}
        \cup {[ok(mp) EXCEPT !.src = v] : v \in {Undefined, Str(""), Num(7)}}
        \cup {[ok(mp) EXCEPT !.method = v] : v \in {Undefined, Str("")}}
        \cup {[ok(mp) EXCEPT !.params = v] : v \in {Undefined, Str("{}"), Arr(<<>>)}}
        : mp \in bases}
      \cup {Envelope(Undefined, Undefined, Undefined, Undefined, Undefined)}

\* Everything a client can send.
Messages ==
  {Garbage, JsonNull} \cup {Json(d) : d \in ValidEnvelopes \cup InvalidEnvelopes}

\* What the second client sends while the first one is served.
SecondClientMessages ==
  {Json(Request(RequestId, "ping", NoParams)),
   Json(Request(RequestId, "/api/install",
                Params(Undefined, Str(EvePlugin), Undefined, Undefined,
                       Undefined)))}

\* The messages that arrive, each with the client it comes from.
Arrivals ==
  {<<"c1", message>> : message \in Messages}
  \cup {<<"c2", message>> : message \in SecondClientMessages}

\* ------------------------------------------------- dispatcher, its state

\* Handler calls suspended at an await and spawned commands still running,
\* that may exist at the same time.
MaxInFlight == 2

\* A call of wsMessageHandler suspended at the await pc (the n-th one of its
\* kind), or the command it has spawned, with the client and data it holds.
Pending(client, data, pc, n) ==
  [client |-> client, data |-> data, pc |-> pc, n |-> n]

\* What a step of the dispatcher did for the message of a client: the call
\* was suspended, its promise was resolved or rejected, or the command it had
\* spawned has settled; the envelopes the call has written to which client,
\* and the commands it has spawned.
Outcome(client, message, step, replies, spawned) ==
  [client |-> client, message |-> message, step |-> step,
   replies |-> replies, spawned |-> spawned]

\* Nothing was received yet.
NothingReceived == Outcome("", Garbage, "none", <<>>, 0)

\* The registry the host runs with: the plugin that has a device, loaded,
\* and another one, registered and not loaded.
RunningRegistry ==
  << [key |-> EvePlugin,
      rec |-> BindPlatform(AddedRecord(Manifest(EvePlugin), "pa"), 1)],
     [key |-> OtherPlugin,
      rec |-> AddedRecord(Manifest(OtherPlugin), "pb")] >>

\* A method returned null.
Null == "null"

\* No registry method was called yet.
NotCalled == [op |-> "", input |-> "", value |-> Null]

\* ------------------------------------------------------- the console client

\* const maxMessages, maxRetries, pingIntervalSeconds, offlineTimeoutSeconds
maxMessages == 1000
maxRetries == 100
pingIntervalSeconds == 10
offlineTimeoutSeconds == 5

\* The ends of the range of Math.floor(Math.random() * (999999 - 3 + 1)) + 3.
IdLow == 3
IdHigh == 999999

\* How many values of Math.random() are taken next to 0 and next to 1.
RandomSamples == 1

\* Math.random() is n / RandomSteps for a numerator n below RandomSteps:
\* one value in each of the intervals that Math.floor tells apart.
RandomSteps == IdHigh - IdLow + 1

RandomNumerators ==
  (0 .. RandomSamples - 1) \cup (RandomSteps - RandomSamples .. RandomSteps - 1)

\* Math.floor((n / d) * factor), without a product beyond 32 bits.
FloorOfProduct(n, d, factor) ==
  n * (factor \div d) + (n * (factor % d)) \div d

\* The id without the offset + 3.
GeneratedIdFromZero(n) == FloorOfProduct(n, RandomSteps, IdHigh - IdLow + 1)

\* Math.floor(Math.random() * (999999 - 3 + 1)) + 3, for Math.random() =
\* n / RandomSteps.
GeneratedId(n) == FloorOfProduct(n, RandomSteps, IdHigh - IdLow + 1) + IdLow

\* A timer that was cleared, has fired or was never set, and one that is due
\* in the given number of seconds.
NoTimer == [armed |-> FALSE, due |-> 0]

Timer(seconds) == [armed |-> TRUE, due |-> seconds]

IsDue(timer) == timer.armed /\ timer.due = 0

\* The listeners a component can register.
Listeners == {"l1", "l2"}

\* How many entries listenersRef.current can have.
MaxListeners == 2

\* The levels of a log record and of the filter that are told apart.
Levels == {"debug", "info"}

\* The provider after its first render, with the id drawn for Math.random() =
\* n / RandomSteps: wsRef.current is null, no timer is set.  messages is the
\* length of the buffer; notified, sent, closes and scheduled record what the
\* handlers did (the listeners called by the handler that ran last, the
\* message written last to the socket, the closes and the reconnects
\* scheduled since the last open).
Constructed(n) ==
  [readyState |-> "none",
   messages |-> 0,
   online |-> FALSE,
   refresh |-> FALSE,
   restart |-> FALSE,
   logFilterLevel |-> "info",
   listeners |-> <<>>,
   retryCount |-> 1,
   uniqueId |-> GeneratedId(n),
   pingInterval |-> NoTimer,
   offlineTimeout |-> NoTimer,
   reconnect |-> NoTimer,
   notified |-> <<>>,
   sent |-> <<>>,
   closes |-> 0,
   scheduled |-> 0]

\* A message of the host as onmessage tells messages apart: whether
\* JSON.parse accepts the data, whether it has an id, the id, whether src,
\* dst and response are those of a pong, and the level of a log record ("":
\* level, time, name or message is missing).
Incoming(parses, hasId, id, pong, level) ==
  [parses |-> parses, hasId |-> hasId, id |-> id, pong |-> pong,
   level |-> level]

\* The messages received: garbage, a message without id, log records, the two
\* pushes, a pong and a response with the id u of the client, a response with
\* another id.
IncomingMessages(u) ==
  {Incoming(FALSE, FALSE, 0, FALSE, ""), Incoming(TRUE, FALSE, 0, FALSE, ""),
   Incoming(TRUE, TRUE, WS_ID_REFRESH_NEEDED, FALSE, ""),
   Incoming(TRUE, TRUE, WS_ID_RESTART_NEEDED, FALSE, ""),
   Incoming(TRUE, TRUE, u, TRUE, ""), Incoming(TRUE, TRUE, u, FALSE, ""),
   Incoming(TRUE, TRUE, RequestId, FALSE, "")}
  \cup {Incoming(TRUE, TRUE, WS_ID_LOG, FALSE, level) : level \in Levels \cup {""}}

\* The log records among them.
LogRecords == {Incoming(TRUE, TRUE, WS_ID_LOG, FALSE, level) : level \in Levels}

\* logMessage(badge, message), called n times: setMessages appends an entry.
logMessage(c, n) == [c EXCEPT !.messages = c.messages + n]

\* sendMessage(message): written to the socket only when it is open, with
\* the id of the client when the message has none.
sendMessage(c, hasId, id, method) ==
  IF c.readyState = "open"
    THEN [c EXCEPT !.sent = <<[id |-> IF hasId THEN id ELSE c.uniqueId,
                              method |-> method]>>]
    ELSE c

\* The client c after a handler that calls no listener.
Quiet(c) == [c EXCEPT !.notified = <<>>]

\* A component sends a request, with an id of its own or without one.
SendMessageCalled(hasId) ==
  /\ console' = Quiet(sendMessage(console, hasId, RequestId, "request"))
  /\ UNCHANGED hostVars

\* setLogFilters(level, search), search being '*'.
setLogFilters(level) ==
  /\ console' = Quiet(logMessage([console EXCEPT !.logFilterLevel = level], 1))
  /\ UNCHANGED hostVars

\* addListener(listener)
addListener(listener) ==
  /\ Len(console.listeners) < MaxListeners
  /\ console' = Quiet([console EXCEPT !.listeners = Append(@, listener)])
  /\ UNCHANGED hostVars

\* removeListener(listener)
removeListener(listener) ==
  /\ \E i \in DOMAIN console.listeners : console.listeners[i] = listener
  /\ console' = Quiet([console EXCEPT
       !.listeners = SelectSeq(@, LAMBDA l : l # listener)])
  /\ UNCHANGED hostVars

\* connectWebSocket(): the notice and the new WebSocket.
connectWebSocket(c) == [logMessage(c, 1) EXCEPT !.readyState = "connecting"]

\* The effect that runs after the first render.
Mount ==
  /\ console.readyState = "none"
  /\ console' = Quiet(connectWebSocket(console))
  /\ UNCHANGED hostVars

\* A dispatch that calls every listener twice and sets no flag.
DispatchedTwice(c, msg) ==
  IF msg.parses /\ msg.hasId /\ msg.id # WS_ID_LOG
    THEN [c EXCEPT !.notified = c.listeners \o c.listeners]
    ELSE c

\* What onmessage does between its first statement and the log filter: the
\* flags set, the offline timer cleared, the listeners called.
Dispatched(c, msg) ==
  IF ~msg.parses \/ ~msg.hasId THEN c
  ELSE IF msg.id = WS_ID_REFRESH_NEEDED
    THEN [c EXCEPT !.refresh = TRUE, !.notified = c.listeners]
  ELSE IF msg.id = WS_ID_RESTART_NEEDED
    THEN [c EXCEPT !.restart = TRUE, !.notified = c.listeners]
  ELSE IF msg.id = c.uniqueId /\ msg.pong
    THEN [c EXCEPT !.offlineTimeout = NoTimer, !.notified = c.listeners]
  ELSE IF msg.id # WS_ID_LOG
    THEN [c EXCEPT !.notified = c.listeners]
  ELSE c

\* The log record msg passes the filter by level.
PassesFilter(c, msg) ==
  /\ msg.parses /\ msg.hasId /\ msg.id = WS_ID_LOG
  /\ msg.level # ""
  /\ ~(c.logFilterLevel = "info" /\ msg.level = "debug")

\* The setMessages of onmessage: the record is appended and the newest
\* maxMessages entries are kept.
Buffered(c) ==
  [c EXCEPT !.messages =
     IF c.messages + 1 > maxMessages THEN maxMessages ELSE c.messages + 1]

\* onmessage(event): online is set (the handler closes over the online of the
\* first render, which is false), then the message is dispatched or buffered.
onmessage(msg) ==
  /\ console.readyState = "open"
  /\ LET c == [console EXCEPT !.online = TRUE, !.notified = <<>>]
     IN  console' = IF PassesFilter(c, msg) THEN Buffered(c)
                                         ELSE Dispatched(c, msg)
  /\ UNCHANGED hostVars

\* onopen: the notice, online, the retry counter and the ping interval.
onopen ==
  /\ console.readyState = "connecting"
  /\ console' = [Quiet(logMessage(console, 1)) EXCEPT
       !.readyState = "open",
       !.online = TRUE,
       !.retryCount = 1,
       !.pingInterval = Timer(pingIntervalSeconds),
       !.closes = 0,
       !.scheduled = 0]
  /\ UNCHANGED hostVars

\* onclose where the last retry is scheduled too.
ClosedRetryingOnceMore(c) ==
  [logMessage(c, IF c.retryCount <= maxRetries THEN 2 ELSE 3) EXCEPT
     !.readyState = "closed",
     !.online = FALSE,
     !.offlineTimeout = NoTimer,
     !.pingInterval = NoTimer,
     !.reconnect = IF c.retryCount <= maxRetries THEN Timer(c.retryCount)
                                                 ELSE @,
     !.retryCount = c.retryCount + 1,
     !.closes = c.closes + 1,
     !.scheduled = IF c.retryCount <= maxRetries THEN @ + 1 ELSE @]

\* What onclose leaves: two notices (three when the retries are used up),
\* offline, both timers cleared, attemptReconnect scheduled in retryCount
\* seconds while retryCount < maxRetries, the counter one higher.
Closed(c) ==
  [logMessage(c, IF c.retryCount < maxRetries THEN 2 ELSE 3) EXCEPT
     !.readyState = "closed",
     !.online = FALSE,
     !.offlineTimeout = NoTimer,
     !.pingInterval = NoTimer,
     !.reconnect = IF c.retryCount < maxRetries THEN Timer(c.retryCount)
                                                ELSE @,
     !.retryCount = c.retryCount + 1,
     !.closes = c.closes + 1,
     !.scheduled = IF c.retryCount < maxRetries THEN @ + 1 ELSE @]

\* onclose: the connection attempt failed or the open socket was closed.
onclose ==
  /\ console.readyState \in {"connecting", "open"}
  /\ console' = Quiet(Closed(console))
  /\ UNCHANGED hostVars

\* The callback of setInterval where the offline timer is not set.
PingedUnwatched(c) ==
  [sendMessage(c, TRUE, c.uniqueId, "ping") EXCEPT
     !.pingInterval = Timer(pingIntervalSeconds)]

\* The callback of setInterval: the ping is sent and the offline timer is
\* cleared and set again; the interval repeats.
Pinged(c) ==
  [sendMessage(c, TRUE, c.uniqueId, "ping") EXCEPT
     !.offlineTimeout = Timer(offlineTimeoutSeconds),
     !.pingInterval = Timer(pingIntervalSeconds)]

PingDue ==
  /\ IsDue(console.pingInterval)
  /\ console' = Quiet(Pinged(console))
  /\ UNCHANGED hostVars

\* The callback of the offline timer: the notice, and online is false.
OfflineDue ==
  /\ IsDue(console.offlineTimeout)
  /\ console' = [Quiet(logMessage(console, 1)) EXCEPT
       !.online = FALSE, !.offlineTimeout = NoTimer]
  /\ UNCHANGED hostVars

\* attemptReconnect, called by the timer set in onclose.
attemptReconnect ==
  /\ IsDue(console.reconnect)
  /\ console' = Quiet(connectWebSocket([console EXCEPT !.reconnect = NoTimer]))
  /\ UNCHANGED hostVars

\* The timers of the client.
Timers(c) == {c.pingInterval, c.offlineTimeout, c.reconnect}

\* The timer t after the given seconds.
After(t, seconds) == IF t.armed THEN Timer(t.due - seconds) ELSE t

\* Time passes until the next timer is due: no callback is pending, and every
\* timer set is that much nearer.
TimePasses ==
  /\ \E t \in Timers(console) : t.armed
  /\ \A t \in Timers(console) : ~IsDue(t)
  /\ LET seconds == CHOOSE d \in 1 .. maxRetries :
           /\ \E t \in Timers(console) : t.armed /\ t.due = d
           /\ \A t \in Timers(console) : t.armed => t.due >= d
     IN  console' = [Quiet(console) EXCEPT
           !.pingInterval = After(@, seconds),
           !.offlineTimeout = After(@, seconds),
           !.reconnect = After(@, seconds)]
  /\ UNCHANGED hostVars

\* ------------------------------------------------------------------- Init

\* No shutdown call has run yet and no registry call is in flight.
InitAux ==
  /\ cleared = FALSE
  /\ pending = {}
  /\ writes = <<>>
  /\ writeFailed = FALSE
  /\ console = Constructed(0)

Init ==
  /\ plugin = NewPlugin
  /\ calls = [c \in Calls |-> Idle]
  /\ last = NoReturn
  /\ storage = Persisted(NewPlugin)
  /\ registry = <<>>
  /\ stored = <<>>
  /\ manifest = [p \in Paths |-> Manifest(InstalledName(p))]
  /\ returned = NotCalled
  /\ inflight = EmptyBag
  /\ wslast = NothingReceived
  /\ InitAux

\* ------------------------------------------------------------------- load

\* load(plugin, start): the guards; past them the call is suspended in fs.readFile.
LoadCall(c, start) ==
  /\ FreeSlot(c)
  /\ \/ /\ LoadGuard(plugin) = "not enabled"
        /\ Refuse("load", "undefined", "not enabled")
     \/ /\ LoadGuard(plugin) = "already loaded"
        /\ Refuse("load", "platform", "already loaded")
     \/ /\ LoadGuard(plugin) = "ok"
        /\ Suspend(c, "load", start, "readFile")
  /\ UNCHANGED <<plugin, storage>>
  /\ UNCHANGED <<regVars, ctlVars>>

\* fs.readFile and JSON.parse of the manifest: resolved, or thrown into the catch.
LoadReadFile(c) ==
  /\ calls[c].pc = "readFile"
  /\ \/ /\ Goto(c, "import")
        /\ UNCHANGED plugin
     \/ /\ plugin' = MarkError(plugin)
        /\ Finish(c, "undefined", "failed to load")
  /\ UNCHANGED storage
  /\ UNCHANGED <<regVars, ctlVars>>

\* await import(...): a module with a default export (loadPluginConfig is called
\* and awaited), a module without one, or a throw.
LoadImport(c) ==
  /\ calls[c].pc = "import"
  /\ \/ /\ Goto(c, "loadConfig")
        /\ UNCHANGED plugin
     \/ /\ plugin' = MarkError(plugin)
        /\ Finish(c, "undefined", "no default export")
     \/ /\ plugin' = MarkError(plugin)
        /\ Finish(c, "undefined", "failed to load")
  /\ UNCHANGED storage
  /\ UNCHANGED <<regVars, ctlVars>>

\* loadPluginConfig resolved: the factory is invoked and the record bound to the
\* platform it returns, then loadPluginSchema is awaited; or loadPluginConfig or
\* the factory threw.  The platform object of the call in slot c is numbered c.
LoadConfig(c) ==
  /\ calls[c].pc = "loadConfig"
  /\ \/ /\ plugin' = BindPlatform(plugin, c)
        /\ Goto(c, "loadSchema")
     \/ /\ plugin' = MarkError(plugin)
        /\ Finish(c, "undefined", "failed to load")
  /\ UNCHANGED storage
  /\ UNCHANGED <<regVars, ctlVars>>

\* loadPluginSchema resolved: with start, start(plugin, message, false) runs
\* to its await of onStart; otherwise load returns the platform.  Or it threw.
LoadSchema(c) ==
  /\ calls[c].pc = "loadSchema"
  /\ \/ /\ calls[c].flag /\ StartGuard(plugin) = "ok"
        /\ Goto(c, "onStart")
        /\ UNCHANGED plugin
     \/ /\ ~(calls[c].flag /\ StartGuard(plugin) = "ok")
        /\ Finish(c, "platform", "loaded")
        /\ UNCHANGED plugin
     \/ /\ plugin' = MarkError(plugin)
        /\ Finish(c, "undefined", "failed to load")
  /\ UNCHANGED storage
  /\ UNCHANGED <<regVars, ctlVars>>

\* ------------------------------------------------------------------ start

\* start(plugin, message, configure): the guards; past them onStart is invoked
\* on plugin.platform and awaited.
StartCall(c, configure) ==
  /\ FreeSlot(c)
  /\ \/ /\ StartGuard(plugin) = "ok"
        /\ Suspend(c, "start", configure, "onStart")
     \/ /\ StartGuard(plugin) # "ok"
        /\ Refuse("start", "undefined", StartGuard(plugin))
  /\ UNCHANGED <<plugin, storage>>
  /\ UNCHANGED <<regVars, ctlVars>>

\* onStart resolved (started is set; with configure, configure() runs to its await
\* of onConfigure) or rejected.  Inside load the call was made with configure=false
\* and load returns its platform either way.
StartResume(c) ==
  /\ calls[c].pc = "onStart"
  /\ \/ /\ plugin' = MarkStarted(plugin)
        /\ IF /\ StartConfigureArg(calls[c])
              /\ ConfigureGuard(MarkStarted(plugin)) = "ok"
           THEN Goto(c, "onConfigure")
           ELSE Finish(c, IF calls[c].op = "load" THEN "platform" ELSE "plugin",
                       "started")
     \/ /\ plugin' = MarkError(plugin)
        /\ Finish(c, IF calls[c].op = "load" THEN "platform" ELSE "undefined",
                  "failed to start")
  /\ UNCHANGED storage
  /\ UNCHANGED <<regVars, ctlVars>>

\* -------------------------------------------------------------- configure

\* configure(plugin): the guards; past them onConfigure is invoked and awaited.
ConfigureCall(c) ==
  /\ FreeSlot(c)
  /\ \/ /\ ConfigureGuard(plugin) = "ok"
        /\ Suspend(c, "configure", FALSE, "onConfigure")
     \/ /\ ConfigureGuard(plugin) # "ok"
        /\ Refuse("configure", "undefined", ConfigureGuard(plugin))
  /\ UNCHANGED <<plugin, storage>>
  /\ UNCHANGED <<regVars, ctlVars>>

\* onConfigure resolved or rejected.  Called from start, start returns the plugin
\* either way.
ConfigureResume(c) ==
  /\ calls[c].pc = "onConfigure"
  /\ \/ /\ plugin' = MarkConfigured(plugin)
        /\ FinishSaved(c)
     \/ /\ plugin' = MarkError(plugin)
        /\ Finish(c, IF calls[c].op = "start" THEN "plugin" ELSE "undefined",
                  "failed to configure")
  /\ UNCHANGED storage
  /\ UNCHANGED <<regVars, ctlVars>>

\* --------------------------------------------------------------- shutdown

\* shutdown(plugin, reason, removeAllDevices): the guards; past them onShutdown
\* is invoked on plugin.platform and awaited.
ShutdownCall(c, removeAllDevices) ==
  /\ FreeSlot(c)
  /\ \/ /\ ShutdownGuard(plugin) = "ok"
        /\ Suspend(c, "shutdown", removeAllDevices, "onShutdown")
     \/ /\ ShutdownGuard(plugin) # "ok"
        /\ Refuse("shutdown", "undefined", ShutdownGuard(plugin))
  /\ UNCHANGED <<plugin, storage>>
  /\ UNCHANGED <<regVars, ctlVars>>

\* onShutdown resolved: the transient fields are cleared, then (removeAllDevices)
\* removeAllBridgedDevices is awaited; or onShutdown rejected.
ShutdownResume(c) ==
  /\ calls[c].pc = "onShutdown"
  /\ \/ /\ plugin' = ClearOnShutdown(plugin)
        /\ IF calls[c].flag THEN Goto(c, "removeDevices")
           ELSE Finish(c, "plugin", "shutdown completed")
     \/ /\ plugin' = ShutdownCatch(plugin)
        /\ Finish(c, "undefined", "failed to shut down")
  /\ UNCHANGED storage
  /\ UNCHANGED <<regVars, ctlVars>>

\* removeAllBridgedDevices resolved, or rejected into the catch.
ShutdownRemoveDevices(c) ==
  /\ calls[c].pc = "removeDevices"
  /\ \/ /\ Finish(c, "plugin", "shutdown completed")
        /\ UNCHANGED plugin
     \/ /\ plugin' = ShutdownCatch(plugin)
        /\ Finish(c, "undefined", "failed to shut down")
  /\ UNCHANGED storage
  /\ UNCHANGED <<regVars, ctlVars>>

\* ------------------------------------------------------- enable / disable

\* enable(name) of the registered record: enabled = true, saveToStorage.
Enable ==
  /\ plugin' = [plugin EXCEPT !.enabled = TRUE]
  /\ storage' = Persisted(plugin')
  /\ UNCHANGED <<calls, last>>
  /\ UNCHANGED <<regVars, ctlVars>>

\* disable(name) of the registered record: enabled = false, saveToStorage.
Disable ==
  /\ plugin' = [plugin EXCEPT !.enabled = FALSE]
  /\ storage' = Persisted(plugin')
  /\ UNCHANGED <<calls, last>>
  /\ UNCHANGED <<regVars, ctlVars>>

\* The host marks the record of a loaded plugin as connected to a controller.
Connect ==
  /\ plugin.loaded /\ ~plugin.connected
  /\ plugin' = [plugin EXCEPT !.connected = TRUE]
  /\ UNCHANGED <<calls, last, storage>>
  /\ UNCHANGED <<regVars, ctlVars>>

\* ------------------------------------------------------------------- Next

Next ==
  \/ \E c \in Calls, b \in BOOLEAN : LoadCall(c, b) /\ UNCHANGED auxVars
  \/ \E c \in Calls : LoadReadFile(c) /\ UNCHANGED auxVars
  \/ \E c \in Calls : LoadImport(c) /\ UNCHANGED auxVars
  \/ \E c \in Calls : LoadConfig(c) /\ UNCHANGED auxVars
  \/ \E c \in Calls : LoadSchema(c) /\ UNCHANGED auxVars
  \/ \E c \in Calls, b \in BOOLEAN : StartCall(c, b) /\ UNCHANGED auxVars
  \/ \E c \in Calls : StartResume(c) /\ UNCHANGED auxVars
  \/ \E c \in Calls : ConfigureCall(c) /\ UNCHANGED auxVars
  \/ \E c \in Calls : ConfigureResume(c) /\ UNCHANGED auxVars
  \/ \E c \in Calls, b \in BOOLEAN : ShutdownCall(c, b) /\ UNCHANGED auxVars
  \/ \E c \in Calls : ShutdownResume(c) /\ UNCHANGED auxVars
  \/ \E c \in Calls : ShutdownRemoveDevices(c) /\ UNCHANGED auxVars
  \/ Enable /\ UNCHANGED auxVars
  \/ Disable /\ UNCHANGED auxVars

Spec == Init /\ [][Next]_vars

\* Calls made one at a time: a call is made only when no other call is suspended.
\* Here the host also marks the plugin connected.
NoCallInFlight == InFlight = {}

NextSeq ==
  \/ \E c \in Calls, b \in BOOLEAN : NoCallInFlight /\ LoadCall(c, b) /\ UNCHANGED auxVars
  \/ \E c \in Calls : LoadReadFile(c) /\ UNCHANGED auxVars
  \/ \E c \in Calls : LoadImport(c) /\ UNCHANGED auxVars
  \/ \E c \in Calls : LoadConfig(c) /\ UNCHANGED auxVars
  \/ \E c \in Calls : LoadSchema(c) /\ UNCHANGED auxVars
  \/ \E c \in Calls, b \in BOOLEAN : NoCallInFlight /\ StartCall(c, b) /\ UNCHANGED auxVars
  \/ \E c \in Calls : StartResume(c) /\ UNCHANGED auxVars
  \/ \E c \in Calls : NoCallInFlight /\ ConfigureCall(c) /\ UNCHANGED auxVars
  \/ \E c \in Calls : ConfigureResume(c) /\ UNCHANGED auxVars
  \/ \E c \in Calls, b \in BOOLEAN : NoCallInFlight /\ ShutdownCall(c, b) /\ UNCHANGED auxVars
  \/ \E c \in Calls : ShutdownResume(c) /\ UNCHANGED auxVars
  \/ \E c \in Calls : ShutdownRemoveDevices(c) /\ UNCHANGED auxVars
  \/ Enable /\ UNCHANGED auxVars
  \/ Disable /\ UNCHANGED auxVars
  \/ Connect /\ UNCHANGED auxVars

SpecSeq == Init /\ [][NextSeq]_vars

\* What a call logs when an awaited operation has thrown or the module has no
\* default export.
FailureLogs ==
  {"failed to load", "no default export", "failed to start",
   "failed to configure", "failed to shut down"}

\* In this step nothing has thrown.
NothingThrows == last'.log \notin FailureLogs

\* Calls made one at a time on a plugin with a valid manifest and module whose
\* hooks do not throw: every awaited operation resolves.
NextValid ==
  \/ \E c \in Calls, b \in BOOLEAN : NoCallInFlight /\ LoadCall(c, b) /\ UNCHANGED auxVars
  \/ \E c \in Calls : LoadReadFile(c) /\ NothingThrows /\ UNCHANGED auxVars
  \/ \E c \in Calls : LoadImport(c) /\ NothingThrows /\ UNCHANGED auxVars
  \/ \E c \in Calls : LoadConfig(c) /\ NothingThrows /\ UNCHANGED auxVars
  \/ \E c \in Calls : LoadSchema(c) /\ NothingThrows /\ UNCHANGED auxVars
  \/ \E c \in Calls, b \in BOOLEAN : NoCallInFlight /\ StartCall(c, b) /\ UNCHANGED auxVars
  \/ \E c \in Calls : StartResume(c) /\ NothingThrows /\ UNCHANGED auxVars
  \/ \E c \in Calls : NoCallInFlight /\ ConfigureCall(c) /\ UNCHANGED auxVars
  \/ \E c \in Calls : ConfigureResume(c) /\ NothingThrows /\ UNCHANGED auxVars
  \/ \E c \in Calls, b \in BOOLEAN : NoCallInFlight /\ ShutdownCall(c, b) /\ UNCHANGED auxVars
  \/ \E c \in Calls : ShutdownResume(c) /\ NothingThrows /\ UNCHANGED auxVars
  \/ \E c \in Calls : ShutdownRemoveDevices(c) /\ NothingThrows /\ UNCHANGED auxVars
  \/ Enable /\ UNCHANGED auxVars
  \/ Disable /\ UNCHANGED auxVars
  \/ Connect /\ UNCHANGED auxVars

SpecValid == Init /\ [][NextValid]_vars

\* ------------------------------------------------------- registry methods

\* A saveToStorage() that writes nothing.
SaveNothing(reg) == stored' = stored

\* saveToStorage(): the array under 'plugins' is replaced.
Save(reg) == stored' = SavedList(reg)

\* add(nameOrPath)
add(input) ==
  /\ LET p == Resolve(input)
     IN  IF input = "" \/ p = NoPath
           THEN UNCHANGED <<registry, stored>>
         ELSE IF HasKey(registry, manifest[p].name)
           THEN UNCHANGED <<registry, stored>>
         ELSE /\ registry' = MapSet(registry, manifest[p].name,
                                     AddedRecord(manifest[p], p))
              /\ Save(registry')
  /\ UNCHANGED <<manifest, lifeVars>>

\* remove(nameOrPath): by key, or by the name of the package.json it resolves to.
remove(input) ==
  /\ LET p == Resolve(input)
     IN  IF input = ""
           THEN UNCHANGED <<registry, stored>>
         ELSE IF HasKey(registry, input)
           THEN /\ registry' = MapDelete(registry, input)
                /\ Save(registry')
         ELSE IF p = NoPath \/ ~HasKey(registry, manifest[p].name)
           THEN UNCHANGED <<registry, stored>>
         ELSE /\ registry' = MapDelete(registry, manifest[p].name)
              /\ Save(registry')
  /\ UNCHANGED <<manifest, lifeVars>>

\* An enable or disable that also takes the record back to unloaded.
SetEnabledUnloads(reg, k, b) ==
  [reg EXCEPT ![IndexOf(reg, k)].rec =
     [@ EXCEPT !.enabled = b, !.loaded = FALSE, !.platform = NoPlatform]]

\* plugin.enabled = b on the record stored under key k.
SetEnabled(reg, k, b) == [reg EXCEPT ![IndexOf(reg, k)].rec.enabled = b]

\* enable(nameOrPath) and disable(nameOrPath): the same method but for the
\* value b written to enabled.
EnableOrDisable(b, input) ==
  /\ LET p == Resolve(input)
     IN  IF input = ""
           THEN UNCHANGED <<registry, stored>>
         ELSE IF HasKey(registry, input)
           THEN /\ registry' = SetEnabled(registry, input, b)
                /\ Save(registry')
         ELSE IF p = NoPath \/ ~HasKey(registry, manifest[p].name)
           THEN UNCHANGED <<registry, stored>>
         ELSE /\ registry' = SetEnabled(registry, manifest[p].name, b)
              /\ Save(registry')
  /\ UNCHANGED <<manifest, lifeVars>>

enable(input) == EnableOrDisable(TRUE, input)

disable(input) == EnableOrDisable(FALSE, input)

\* parse(): the record after its package.json m was read.
ParsedRecord(rec, m) ==
  [rec EXCEPT !.name = OrElse(m.name, "Unknown name"),
              !.version = OrElse(m.version, "1.0.0"),
              !.description = OrElse(m.description, "Unknown description"),
              !.author = OrElse(m.author, "Unknown author")]

\* parse(plugin) on the record stored under key k; saveToStorage is not called.
parse(k) ==
  /\ HasKey(registry, k)
  /\ LET i == IndexOf(registry, k)
         rec == registry[i].rec
         m == manifest[rec.path]
     IN  registry' = [registry EXCEPT ![i].rec =
                        IF m.readable THEN ParsedRecord(rec, m)
                        ELSE MarkError(rec)]
  /\ UNCHANGED <<stored, manifest, lifeVars>>

\* load(): the record after the factory returned, refreshed from its
\* package.json m and bound to the platform.
LoadedRecord(rec, m) ==
  [BindPlatform(rec, 1) EXCEPT
     !.name = m.name,
     !.description = OrElse(m.description, "No description"),
     !.version = m.version,
     !.author = OrElse(m.author, "Unknown"),
     !.type = "Platform",
     !.configJson = "config",
     !.schemaJson = "schema"]

\* load(plugin) on the record stored under key k, run to its return with no
\* other call in between: the package.json cannot be read, or it can and the
\* imports resolve; saveToStorage is not called.
loadRecord(k) ==
  /\ HasKey(registry, k)
  /\ LET i == IndexOf(registry, k)
         rec == registry[i].rec
         m == manifest[rec.path]
     IN  IF LoadGuard(rec) # "ok" THEN UNCHANGED registry
         ELSE registry' = [registry EXCEPT ![i].rec =
                IF ~m.readable THEN MarkError(rec)
                ELSE LoadedRecord(rec, m)]
  /\ UNCHANGED <<stored, manifest, lifeVars>>

\* set(plugin) with a record made for the package.json at path p.
set(p) ==
  /\ manifest[p].readable /\ manifest[p].name # NoName
  /\ registry' = MapSet(registry, manifest[p].name,
                        AddedRecord(manifest[p], p))
  /\ UNCHANGED <<stored, manifest, lifeVars>>

\* clear()
clear ==
  /\ registry' = <<>>
  /\ UNCHANGED <<stored, manifest, lifeVars>>

\* loadFromStorage(): nodeContext.get resolves to the stored array.
loadFromStorage ==
  /\ registry' = LoadInto(registry, stored)
  /\ UNCHANGED <<stored, manifest, lifeVars>>

\* The packages whose package.json changes while the program runs.
EditedPaths == {"pa"}

\* The package.json at path p is replaced: the package is updated and renamed,
\* removed or damaged, or restored.
EditManifest(p, m) ==
  /\ m # manifest[p]
  /\ manifest' = [manifest EXCEPT ![p] = m]
  /\ UNCHANGED <<registry, stored, lifeVars>>

NextRegistry ==
  \/ \E input \in Inputs : add(input) /\ UNCHANGED <<ctlVars, auxVars>>
  \/ \E input \in Inputs : remove(input) /\ UNCHANGED <<ctlVars, auxVars>>
  \/ \E input \in Inputs : enable(input) /\ UNCHANGED <<ctlVars, auxVars>>
  \/ \E input \in Inputs : disable(input) /\ UNCHANGED <<ctlVars, auxVars>>
  \/ \E k \in Names : parse(k) /\ UNCHANGED <<ctlVars, auxVars>>
  \/ \E k \in Names : loadRecord(k) /\ UNCHANGED <<ctlVars, auxVars>>
  \/ \E p \in Paths : set(p) /\ UNCHANGED <<ctlVars, auxVars>>
  \/ clear /\ UNCHANGED <<ctlVars, auxVars>>
  \/ loadFromStorage /\ UNCHANGED <<ctlVars, auxVars>>
  \/ \E p \in EditedPaths, m \in ManifestFiles :
       EditManifest(p, m) /\ UNCHANGED <<ctlVars, auxVars>>

\* The registry methods called one at a time, each run to its return, on
\* packages whose package.json may change between two calls.
SpecRegistry == Init /\ [][NextRegistry]_vars

\* What add(nameOrPath) returns: the record it has set, named here by its key,
\* or null.
addReturns(input) ==
  LET p == Resolve(input)
  IN  IF input = "" \/ p = NoPath THEN Null
      ELSE IF HasKey(registry, manifest[p].name) THEN Null
      ELSE manifest[p].name

\* What remove, enable and disable return: the record found under the key
\* nameOrPath or under the name of the package.json it resolves to, named here
\* by its key, or null.
lookupReturns(input) ==
  LET p == Resolve(input)
  IN  IF input = "" THEN Null
      ELSE IF HasKey(registry, input) THEN input
      ELSE IF p = NoPath THEN Null
      ELSE IF ~HasKey(registry, manifest[p].name) THEN Null
      ELSE manifest[p].name

\* The caller of op(input) gets value.
Returns(op, input, value) ==
  returned' = [op |-> op, input |-> input, value |-> value]

\* A call of one of the four methods, with what its caller gets back.
RegistryCall(op, input) ==
  CASE op = "add" -> add(input) /\ Returns(op, input, addReturns(input))
    [] op = "remove" -> remove(input) /\ Returns(op, input, lookupReturns(input))
    [] op = "enable" -> enable(input) /\ Returns(op, input, lookupReturns(input))
    [] op = "disable" ->
         disable(input) /\ Returns(op, input, lookupReturns(input))

RegistryOps == {"add", "remove", "enable", "disable"}

\* Every package.json a path can hold, the one without a name included.
AllManifestFiles == ManifestFiles \cup {Nameless}

NextReturns ==
  \/ \E op \in RegistryOps, input \in Inputs :
       RegistryCall(op, input) /\ UNCHANGED <<wsVars, auxVars>>
  \/ \E p \in Paths, m \in AllManifestFiles :
       EditManifest(p, m) /\ UNCHANGED <<ctlVars, auxVars>>

\* The four methods called one at a time with their return values observed,
\* on packages whose package.json may be renamed, damaged or left without a
\* name between two calls.
SpecReturns == Init /\ [][NextReturns]_vars

\* ------------------------------------------- registry methods, interleaved

\* How many calls of add, enable, disable and remove can be in flight.
MaxRegistryCalls == 2

\* A call of op(nameOrPath) suspended at the await pc.
Suspended(op, input, pc) == [op |-> op, input |-> input, pc |-> pc]

\* The calls that have not returned: those suspended before their change and
\* those awaiting saveToStorage.
RegistryCallsInFlight == Cardinality(pending) + Len(writes)

\* A saveToStorage() that hands over the array built before the change.
saveToStorageStale(reg) == writes' = Append(writes, SavedList(registry))

\* saveToStorage(): the array is built from the map as it is, handed to
\* nodeContext.set and awaited.
saveToStorage(reg) == writes' = Append(writes, SavedList(reg))

\* The change op makes to the map, once it has the key k (add: the name in
\* the package.json at path p).
Changed(op, k, p) ==
  CASE op = "add" -> MapSet(registry, k, AddedRecord(manifest[p], p))
    [] op = "remove" -> MapDelete(registry, k)
    [] op = "enable" -> SetEnabled(registry, k, TRUE)
    [] op = "disable" -> SetEnabled(registry, k, FALSE)

\* op(nameOrPath) is called: enable, disable and remove of a key change the
\* map and call saveToStorage at once; otherwise the call awaits resolve().
RegistryCallMade(op, input) ==
  /\ RegistryCallsInFlight < MaxRegistryCalls
  /\ input # ""
  /\ IF op # "add" /\ HasKey(registry, input)
       THEN /\ registry' = Changed(op, input, NoPath)
            /\ saveToStorage(registry')
            /\ UNCHANGED pending
       ELSE /\ Suspended(op, input, "resolve") \notin pending
            /\ pending' = pending \cup {Suspended(op, input, "resolve")}
            /\ UNCHANGED <<registry, writes>>
  /\ UNCHANGED <<stored, manifest, writeFailed, cleared, console, lifeVars,
                  ctlVars>>

\* resolve() has returned to the call h: without a path the call returns
\* null, with one it awaits fs.readFile.
RegistryCallResolved(h) ==
  /\ h \in pending /\ h.pc = "resolve"
  /\ IF Resolve(h.input) = NoPath
       THEN pending' = pending \ {h}
       ELSE /\ [h EXCEPT !.pc = "readFile"] \notin pending
            /\ pending' = (pending \ {h}) \cup {[h EXCEPT !.pc = "readFile"]}
  /\ UNCHANGED <<registry, stored, manifest, writes, writeFailed, cleared,
                  console, lifeVars, ctlVars>>

\* fs.readFile has returned to the call h: the package.json cannot be parsed,
\* its name is (add) registered or (others) not registered, and the call
\* returns null; or the map is changed and saveToStorage is called.
RegistryCallRead(h) ==
  /\ h \in pending /\ h.pc = "readFile"
  /\ pending' = pending \ {h}
  /\ LET p == PathOf(h.input)
         name == manifest[p].name
     IN  IF \/ ~manifest[p].readable
            \/ (h.op = "add") = HasKey(registry, name)
           THEN UNCHANGED <<registry, writes>>
         ELSE /\ registry' = Changed(h.op, name, p)
              /\ saveToStorage(registry')
  /\ UNCHANGED <<stored, manifest, writeFailed, cleared, console, lifeVars,
                  ctlVars>>

\* The oldest nodeContext.set settles and the call awaiting it returns: the
\* array is stored, or the write has failed and the stored array is as it was.
WriteSettles(ok) ==
  /\ writes # <<>>
  /\ writes' = Tail(writes)
  /\ IF ok THEN stored' = Head(writes) /\ UNCHANGED writeFailed
           ELSE writeFailed' = TRUE /\ UNCHANGED stored
  /\ UNCHANGED <<registry, manifest, pending, cleared, console, lifeVars,
                  ctlVars>>

NextSave ==
  \/ \E op \in RegistryOps, input \in Inputs : RegistryCallMade(op, input)
  \/ \E h \in pending : RegistryCallResolved(h)
  \/ \E h \in pending : RegistryCallRead(h)
  \/ \E ok \in BOOLEAN : WriteSettles(ok)

\* add, enable, disable and remove called in any order, also while earlier
\* calls are suspended; the writes to the store settle in the order made.
SpecSave == Init /\ [][NextSave]_vars

\* The array saved after the array list was loaded into an empty registry.
RoundTrip(list) == SavedList(LoadInto(<<>>, list))

\* This step is a call of add, remove, enable or disable.
MutatorStep ==
  \E input \in Inputs :
    add(input) \/ remove(input) \/ enable(input) \/ disable(input)

\* This step is a call of parse or load on a record of the registry.
RefreshStep == \E k \in Names : parse(k) \/ loadRecord(k)

\* ------------------------------------------------------------ dispatcher

\* An envelope that keeps the dst of the request.
ReplyKeepsDst(data, payload) ==
  Stringify([id |-> data.id, method |-> data.method,
             src |-> Str(HostIdentity), dst |-> data.dst] @@ payload)

\* JSON.stringify({ id: data.id, method: data.method, src: 'Matterbridge',
\* dst: data.src, ...payload }): the envelope written in reply to data.
Reply(data, payload) ==
  Stringify([id |-> data.id, method |-> data.method,
             src |-> Str(HostIdentity), dst |-> data.src] @@ payload)

\* The envelope with the error text, and the one with the response value.
ErrorReply(data, text) == Reply(data, [error |-> Str(text)])

ResponseReply(data, value) == Reply(data, [response |-> value])

\* A validation that does not look at dst.
InvalidMessageIgnoresDst(data) ==
  \/ ~isValidNumber(data.id)
  \/ ~isValidString(data.src)
  \/ ~isValidString(data.method)
  \/ ~isValidObject(data.params)

\* The condition under which the envelope is rejected as 'Invalid message'.
InvalidMessage(data) ==
  \/ ~isValidNumber(data.id)
  \/ ~isValidString(data.dst)
  \/ ~isValidString(data.src)
  \/ ~isValidString(data.method)
  \/ ~isValidObject(data.params)
  \/ data.dst # Str(HostIdentity)

\* What a run of the handler up to its next await or return does: it calls
\* client.send with an envelope and returns, returns without sending, awaits
\* at pc, calls spawnCommand and returns, or lets an exception escape.
Send(envelope) == [kind |-> "send", envelope |-> envelope]

Silent == [kind |-> "silent"]

Await(pc) == [kind |-> "await", pc |-> pc]

Spawn == [kind |-> "spawn"]

Throw == [kind |-> "throw"]

\* A catch block that fails itself: the exception escapes the handler.
CaughtRethrows == Throw

\* The catch block of the handler: the error is logged, the handler returns.
Caught == Silent

\* A value that an if or an && takes as true.
Truthy(v) == v \notin {Undefined, Str(""), Num(0), Bool(FALSE)}

\* /api/devices: the entries pushed for the devices whose plugin is the
\* pluginName asked for, or for all devices; a device whose callback throws
\* pushes nothing.
DeviceEntries(params, fails) ==
  LET kept == SelectSeq(Devices, LAMBDA d :
                /\ ~(Truthy(params.pluginName) /\ params.pluginName # Str(d.plugin))
                /\ ~fails)
  IN  Arr([i \in DOMAIN kept |->
             Obj([pluginName |-> Str(kept[i].plugin),
                  endpoint |-> Num(kept[i].number),
                  name |-> Str(kept[i].deviceName),
                  serial |-> Str(kept[i].serialNumber)])])

\* A match of /api/clusters that looks at the plugin only.
ClustersMatchIgnoresEndpoint(params, d) == params.plugin = Str(d.plugin)

\* /api/clusters: the device d is the one asked for.
ClustersMatch(params, d) ==
  params.plugin = Str(d.plugin) /\ params.endpoint = Num(d.number)

\* /api/clusters: the entries pushed for the cluster servers of device d;
\* those of 'EveHistory' are skipped.
ClusterEntries(d) ==
  LET servers == SelectSeq(d.clusterServers, LAMBDA c : c # "EveHistory")
  IN  [i \in DOMAIN servers |->
         Obj([endpoint |-> Str(ToString(d.number)), id |-> Str("main"),
              clusterName |-> Str(servers[i])])]

\* /api/clusters: the reply for valid params. The devices asked for give
\* deviceName, serialNumber and their cluster entries; a callback that throws
\* after it has set the names pushes nothing.
ClustersReply(data, fails) ==
  LET params == data.params.object
      found == SelectSeq(Devices, LAMBDA d : ClustersMatch(params, d))
      d == found[Len(found)]
  IN  Reply(data,
        [plugin |-> params.plugin,
         deviceName |-> Str(IF found = <<>> THEN "" ELSE d.deviceName),
         serialNumber |-> Str(IF found = <<>> THEN "" ELSE d.serialNumber),
         endpoint |-> params.endpoint,
         deviceTypes |-> Arr(<<>>),
         response |-> Arr(IF found = <<>> \/ fails THEN <<>>
                          ELSE ClusterEntries(d))])

\* /api/clusters
Clusters(data, fails) ==
  LET params == data.params.object
  IN  IF ~isValidStringMin(params.plugin, 10)
        THEN Send(ErrorReply(data, "Wrong parameter plugin in /api/clusters"))
      ELSE IF ~isValidNumberMin(params.endpoint, 1)
        THEN Send(ErrorReply(data, "Wrong parameter endpoint in /api/clusters"))
      ELSE Send(ClustersReply(data, fails))

\* /api/select and /api/select/entities: the list of the plugin's platform,
\* empty without a platform; reading selectEntity of a platform that has none
\* throws.
Select(data, what, fails) ==
  LET params == data.params.object
      name == params.plugin.string
  IN  IF ~isValidStringMin(params.plugin, 10)
        THEN Send(ErrorReply(data, "Wrong parameter plugin in "
                                     \o data.method.string))
      ELSE IF ~HasKey(registry, name)
        THEN Send(ErrorReply(data, "Plugin not found in "
                                     \o data.method.string))
      ELSE IF registry[IndexOf(registry, name)].rec.platform = NoPlatform
        THEN Send(Reply(data, [plugin |-> params.plugin, response |-> Arr(<<>>)]))
      ELSE IF fails THEN Caught
      ELSE Send(Reply(data, [plugin |-> params.plugin,
                             response |-> Arr(<<Str(what)>>)]))

\* /api/install and /api/uninstall without the check of packageName.
PackageUnchecked(data) == Spawn

\* /api/install and /api/uninstall
Package(data) ==
  IF ~isValidStringMin(data.params.object.packageName, 10)
    THEN Send(ErrorReply(data, "Wrong parameter packageName in "
                                 \o data.method.string))
  ELSE Spawn

\* A ping that is taken for an unknown method.
PingAsInvalidMethod(data) == Send(ErrorReply(data, "Invalid method"))

\* ping
Ping(data) == Send(ResponseReply(data, Str("pong")))

\* An unknown method that is logged and not answered.
InvalidMethodUnanswered(data) == Silent

\* The final else: no method matched.
InvalidMethod(data) == Send(ErrorReply(data, "Invalid method"))

\* The chain of else-ifs on data.method, for a valid envelope.
Route(data, ctx, fails) ==
  LET method == data.method.string
  IN  CASE method = "ping" -> Ping(data)
        [] method = "/api/login" ->
             IF ~ctx
               THEN Send(ErrorReply(data, "Internal error: nodeContext not found"))
             ELSE Await("login")
        [] method \in {"/api/install", "/api/uninstall"} -> Package(data)
        [] method = "/api/restart" -> Await("restart")
        [] method = "/api/shutdown" -> Await("shutdown")
        [] method = "/api/settings" -> Await("settings")
        [] method = "/api/plugins" -> Await("plugins")
        [] method = "/api/devices" ->
             Send(ResponseReply(data, DeviceEntries(data.params.object, fails)))
        [] method = "/api/clusters" -> Clusters(data, fails)
        [] method = "/api/select" -> Select(data, "device", FALSE)
        [] method = "/api/select/entities" -> Select(data, "entity", fails)
        [] OTHER -> InvalidMethod(data)

\* wsMessageHandler from its first line to its first await or its return.
Handle(message, ctx, fails) ==
  IF ParseThrows(message) \/ ReadThrows(message) THEN Caught
  ELSE IF InvalidMessage(Parsed(message))
    THEN Send(ErrorReply(Parsed(message), "Invalid message"))
  ELSE Route(Parsed(message), ctx, fails)

\* The awaits of nodeContext.get in /api/settings.
SettingsAwaits == 6

\* Which of the facts the handler meets can differ for this message: whether
\* this.nodeContext is set (read by /api/login), and whether a callback of
\* the enumeration or the read of selectEntity throws.
MethodOf(message) ==
  IF message \in {Garbage, JsonNull} \/ ~IsString(message.data.method) THEN ""
  ELSE message.data.method.string

ContextChoices(message) ==
  IF MethodOf(message) = "/api/login" THEN BOOLEAN ELSE {TRUE}

FailureChoices(message) ==
  IF MethodOf(message) \in {"/api/devices", "/api/clusters", "/api/select/entities"}
    THEN BOOLEAN
  ELSE {FALSE}

\* client.send(envelope) as the step's record of it.
Written(client, envelope) == [to |-> client, envelope |-> envelope]

\* The call h is no longer in flight.
Drop(h) == inflight' = inflight (-) SetToBag({h})

\* The call h of client for data is in flight.
Hold(h) ==
  /\ BagCardinality(inflight) < MaxInFlight
  /\ inflight' = inflight (+) SetToBag({h})

\* A message of client arrives: wsMessageHandler(client, message) runs to its
\* first await or to its return.
Receive(client, message, ctx, fails) ==
  /\ LET eff == Handle(message, ctx, fails)
     IN  CASE eff.kind = "send" ->
                /\ wslast' = Outcome(client, message, "returned",
                                     <<Written(client, eff.envelope)>>, 0)
                /\ UNCHANGED inflight
           [] eff.kind = "silent" ->
                /\ wslast' = Outcome(client, message, "returned", <<>>, 0)
                /\ UNCHANGED inflight
           [] eff.kind = "throw" ->
                /\ wslast' = Outcome(client, message, "rejected", <<>>, 0)
                /\ UNCHANGED inflight
           [] eff.kind = "await" ->
                /\ Hold(Pending(client, Parsed(message), eff.pc, 1))
                /\ wslast' = Outcome(client, message, "suspended", <<>>, 0)
           [] eff.kind = "spawn" ->
                /\ Hold(Pending(client, Parsed(message), "npm", 1))
                /\ wslast' = Outcome(client, message, "returned", <<>>, 1)
  /\ UNCHANGED <<lifeVars, regVars, returned>>

\* The call h resumes, runs to its return and has the effect eff.
Return(h, eff) ==
  /\ Drop(h)
  /\ wslast' = Outcome(h.client, Json(h.data),
                       IF eff.kind = "throw" THEN "rejected" ELSE "returned",
                       IF eff.kind = "send"
                         THEN <<Written(h.client, eff.envelope)>> ELSE <<>>,
                       0)
  /\ UNCHANGED <<lifeVars, regVars, returned>>

\* A comparison that takes no stored password for a password nobody has.
PasswordAcceptedWhenEqual(storedPassword, password) ==
  Str(storedPassword) = password

\* storedPassword === '' || storedPassword === data.params.password
PasswordAccepted(storedPassword, password) ==
  storedPassword = "" \/ Str(storedPassword) = password

\* /api/login after await this.nodeContext.get('password', ''), which rejects
\* or gives the stored password.
LoginResume(h, ok, storedPassword) ==
  /\ h.pc = "login"
  /\ Return(h,
       IF ~ok THEN Caught
       ELSE IF PasswordAccepted(storedPassword, h.data.params.object.password)
         THEN Send(ResponseReply(h.data, Obj([valid |-> Bool(TRUE)])))
       ELSE Send(ErrorReply(h.data, "Wrong password")))

\* /api/settings after one of its awaits of nodeContext.get.
SettingsResume(h, ok) ==
  /\ h.pc = "settings"
  /\ IF ok /\ h.n < SettingsAwaits
       THEN /\ inflight' = (inflight (-) SetToBag({h}))
                             (+) SetToBag({[h EXCEPT !.n = h.n + 1]})
            /\ wslast' = Outcome(h.client, Json(h.data), "suspended", <<>>, 0)
            /\ UNCHANGED <<lifeVars, regVars, returned>>
     ELSE Return(h,
            IF ~ok THEN Caught
            ELSE Send(ResponseReply(h.data,
                   Obj([systemInformation |-> Str("system"),
                        matterbridgeInformation |-> Str("matterbridge")]))))

\* /api/plugins after await this.getBaseRegisteredPlugins().
PluginsResume(h, ok) ==
  /\ h.pc = "plugins"
  /\ Return(h,
       IF ~ok THEN Caught
       ELSE Send(ResponseReply(h.data,
              Arr([i \in DOMAIN registry |-> Str(registry[i].rec.name)]))))

\* /api/restart and /api/shutdown after await this.restartProcess() or
\* this.shutdownProcess(): the handler returns, or the catch block logs and
\* the handler returns.
ProcessResume(h) ==
  /\ h.pc \in {"restart", "shutdown"}
  /\ Return(h, Silent)

\* The command spawned for h exits: the then or the catch callback of
\* spawnCommand writes the envelope.
SpawnSettles(h, ok) ==
  /\ h.pc = "npm"
  /\ Drop(h)
  /\ wslast' = Outcome(h.client, Json(h.data), "settled",
        <<Written(h.client,
            IF ok THEN ResponseReply(h.data, Str("npm output"))
            ELSE ErrorReply(h.data, "npm failed"))>>, 0)
  /\ UNCHANGED <<lifeVars, regVars, returned>>

\* The host after its start: the registry is loaded, no client has sent
\* anything.
InitWs ==
  /\ plugin = NewPlugin
  /\ calls = [c \in Calls |-> Idle]
  /\ last = NoReturn
  /\ storage = Persisted(NewPlugin)
  /\ registry = RunningRegistry
  /\ stored = SavedList(RunningRegistry)
  /\ manifest = [p \in Paths |->
                   Manifest(IF p = "pa" THEN EvePlugin ELSE OtherPlugin)]
  /\ returned = NotCalled
  /\ inflight = EmptyBag
  /\ wslast = NothingReceived
  /\ InitAux

NextWs ==
  \/ \E a \in Arrivals :
       \E ctx \in ContextChoices(a[2]), fails \in FailureChoices(a[2]) :
         Receive(a[1], a[2], ctx, fails) /\ UNCHANGED auxVars
  \/ \E h \in BagToSet(inflight), ok \in BOOLEAN,
         storedPassword \in StoredPasswords :
       LoginResume(h, ok, storedPassword) /\ UNCHANGED auxVars
  \/ \E h \in BagToSet(inflight), ok \in BOOLEAN :
       SettingsResume(h, ok) /\ UNCHANGED auxVars
  \/ \E h \in BagToSet(inflight), ok \in BOOLEAN :
       PluginsResume(h, ok) /\ UNCHANGED auxVars
  \/ \E h \in BagToSet(inflight) : ProcessResume(h) /\ UNCHANGED auxVars
  \/ \E h \in BagToSet(inflight), ok \in BOOLEAN :
       SpawnSettles(h, ok) /\ UNCHANGED auxVars

\* The dispatcher serving its clients: messages arrive in any order, also
\* while earlier calls of the handler are suspended and commands are running.
SpecWs == InitWs /\ [][NextWs]_vars

\* The requests that end or relaunch the host process.
ProcessRequests ==
  {Json(Request(RequestId, method, NoParams)) :
     method \in {"/api/restart", "/api/shutdown"}}

\* The host with its console: lifecycle calls made one at a time on the
\* record, while a client asks for a restart or a shutdown of the process.
NextHost ==
  \/ NextSeq
  \/ \E client \in Clients, message \in ProcessRequests :
       Receive(client, message, TRUE, FALSE) /\ UNCHANGED auxVars
  \/ \E h \in BagToSet(inflight) : ProcessResume(h) /\ UNCHANGED auxVars

SpecHost == Init /\ [][NextHost]_vars

\* A shutdown call is suspended at one of its awaits.
ShutdownInFlight == \E c \in Calls : calls[c].op = "shutdown"

\* cleared is true while the shutdown call that has reset a set error (the
\* assignments after await onShutdown) has not returned.
Track ==
  /\ cleared' = (ShutdownInFlight' /\ (cleared \/ (plugin.error /\ ~plugin'.error)))
  /\ UNCHANGED <<saveVars, console>>

\* Calls made one at a time, with the reset of error by a shutdown call
\* remembered until that call returns.
NextTracked ==
  \/ \E c \in Calls, b \in BOOLEAN : NoCallInFlight /\ LoadCall(c, b) /\ Track
  \/ \E c \in Calls : LoadReadFile(c) /\ Track
  \/ \E c \in Calls : LoadImport(c) /\ Track
  \/ \E c \in Calls : LoadConfig(c) /\ Track
  \/ \E c \in Calls : LoadSchema(c) /\ Track
  \/ \E c \in Calls, b \in BOOLEAN : NoCallInFlight /\ StartCall(c, b) /\ Track
  \/ \E c \in Calls : StartResume(c) /\ Track
  \/ \E c \in Calls : NoCallInFlight /\ ConfigureCall(c) /\ Track
  \/ \E c \in Calls : ConfigureResume(c) /\ Track
  \/ \E c \in Calls, b \in BOOLEAN : NoCallInFlight /\ ShutdownCall(c, b) /\ Track
  \/ \E c \in Calls : ShutdownResume(c) /\ Track
  \/ \E c \in Calls : ShutdownRemoveDevices(c) /\ Track
  \/ Enable /\ Track
  \/ Disable /\ Track

SpecTracked == Init /\ [][NextTracked]_vars

\* ------------------------------------------- the console client, running

\* How many entries the buffer has in the runs that follow the connection.
MaxNotices == 5

\* How many entries beyond maxMessages the buffer is followed to.
MaxOverflow == 2

\* How many entries the buffer has in the runs that follow the retries.
MaxRetryNotices == 305

\* The host as constructed and the provider after its first render, for
\* every id that line 29 can draw.
InitConsole ==
  /\ plugin = NewPlugin
  /\ calls = [c \in Calls |-> Idle]
  /\ last = NoReturn
  /\ storage = Persisted(NewPlugin)
  /\ registry = <<>>
  /\ stored = <<>>
  /\ manifest = [p \in Paths |-> Manifest(InstalledName(p))]
  /\ returned = NotCalled
  /\ inflight = EmptyBag
  /\ wslast = NothingReceived
  /\ cleared = FALSE
  /\ pending = {}
  /\ writes = <<>>
  /\ writeFailed = FALSE
  /\ \E n \in RandomNumerators : console = Constructed(n)

\* The buffer has at most n entries after this step.
Holds(n) == console'.messages <= n

\* The client connected, receiving messages, sending requests and pings,
\* with listeners added and removed, while time passes.
NextConsole ==
  \/ Mount /\ Holds(MaxNotices)
  \/ onopen /\ Holds(MaxNotices)
  \/ onclose /\ Holds(MaxNotices)
  \/ attemptReconnect /\ Holds(MaxNotices)
  \/ \E msg \in IncomingMessages(console.uniqueId) :
       onmessage(msg) /\ Holds(MaxNotices)
  \/ \E hasId \in BOOLEAN : SendMessageCalled(hasId)
  \/ \E listener \in Listeners : addListener(listener)
  \/ \E listener \in Listeners : removeListener(listener)
  \/ PingDue
  \/ OfflineDue /\ Holds(MaxNotices)
  \/ TimePasses

SpecConsole == InitConsole /\ [][NextConsole]_vars

\* The client whose connections fail or open and close again before the
\* first ping.
NextReconnect ==
  \/ Mount
  \/ onopen /\ Holds(MaxRetryNotices)
  \/ onclose /\ Holds(MaxRetryNotices)
  \/ attemptReconnect /\ Holds(MaxRetryNotices)
  \/ console.readyState = "closed" /\ TimePasses

SpecReconnect == InitConsole /\ [][NextReconnect]_vars

\* The client on one connection, receiving log records while the filter is
\* set by the user.
NextBuffer ==
  \/ Mount
  \/ onopen
  \/ \E msg \in LogRecords : onmessage(msg)
  \/ \E level \in Levels :
       setLogFilters(level) /\ Holds(maxMessages + MaxOverflow)

SpecBuffer == InitConsole /\ [][NextBuffer]_vars

\* ------------------------------------------------------------ observations

\* This step is a call of op that returned from its guards.
RefusedStep(op) == calls' = calls /\ last' # last /\ last'.op = op

\* This step is a call of op, made in slot c, that got past its guards.
PassedStep(c, op) == IsIdle(c) /\ calls'[c].op = op

\* In this step the call in slot c invokes the plugin's factory.
FactoryStep(c) == calls[c].pc = "loadConfig" /\ calls'[c].pc = "loadSchema"

\* In this step the call in slot c invokes the start hook.
OnStartStep(c) == calls[c].pc # "onStart" /\ calls'[c].pc = "onStart"

\* In this step the shutdown hook awaited by the call in slot c has resolved.
ShutdownHookOkStep(c) ==
  /\ calls[c].pc = "onShutdown"
  /\ \/ calls'[c].pc = "removeDevices"
     \/ IsIdle(c)' /\ last'.res = "plugin"

\* In this step the shutdown call in slot c returns an absent result from its catch.
ShutdownFailedStep(c) ==
  /\ calls[c].op = "shutdown" /\ IsIdle(c)'
  /\ last'.op = "shutdown" /\ last'.res = "undefined"

\* In this step the start hook awaited by the call in slot c has thrown.
StartHookThrewStep(c) ==
  calls[c].pc = "onStart" /\ IsIdle(c)' /\ last'.log = "failed to start"

\* In this step the configure hook awaited by the call in slot c has thrown.
ConfigureHookThrewStep(c) ==
  calls[c].pc = "onConfigure" /\ IsIdle(c)' /\ last'.log = "failed to configure"

\* In this step the shutdown hook awaited by the call in slot c has thrown.
ShutdownHookThrewStep(c) ==
  calls[c].pc = "onShutdown" /\ IsIdle(c)' /\ last'.log = "failed to shut down"

\* In this step the load call in slot c, which got past its guards, returns an
\* absent result (from the else branch or the catch).
LoadFailedStep(c) ==
  calls[c].op = "load" /\ IsIdle(c)' /\ last'.res = "undefined"

\* This step is a step of the load call suspended in slot c.
LoadStep(c) == calls[c].op = "load" /\ calls'[c] # calls[c]

\* In this step the call in slot c invokes the configure hook.
OnConfigureStep(c) == calls[c].pc # "onConfigure" /\ calls'[c].pc = "onConfigure"

\* What a lifecycle call can return: nothing, the plugin record, or a platform.
ReturnValues == {"undefined", "plugin", "platform"}

\* The message of the last dispatcher step is the JSON text of an object.
IsEnvelope(message) == "data" \in DOMAIN message

\* The value a reader of the written envelope finds under key.
Field(envelope, key) ==
  IF key \in DOMAIN envelope THEN envelope[key] ELSE Undefined

\* The envelope answers data: same id and method, src the host, dst the
\* src of data.
Correlated(envelope, data) ==
  /\ Field(envelope, "id") = data.id
  /\ Field(envelope, "method") = data.method
  /\ Field(envelope, "src") = Str("Matterbridge")
  /\ Field(envelope, "dst") = data.src

\* The envelope carries an error and no response; a response and no error.
IsError(envelope) ==
  "error" \in DOMAIN envelope /\ "response" \notin DOMAIN envelope

IsResponse(envelope) ==
  "response" \in DOMAIN envelope /\ "error" \notin DOMAIN envelope

\* The envelope has the five keys well-formed and is addressed to the host.
WellFormed(data) ==
  /\ IsNumber(data.id)
  /\ \A k \in {"dst", "src", "method"} : IsString(data[k]) /\ data[k] # Str("")
  /\ IsObject(data.params)
  /\ data.dst = Str("Matterbridge")

\* The last step was the handler's return for a well-formed envelope with
\* this method.
Answered(method) ==
  /\ IsEnvelope(wslast.message)
  /\ WellFormed(wslast.message.data)
  /\ wslast.message.data.method = Str(method)

\* The methods the dispatcher has a branch for.
RecognizedMethods ==
  {"ping", "/api/login", "/api/install", "/api/uninstall", "/api/restart",
   "/api/shutdown", "/api/settings", "/api/plugins", "/api/devices",
   "/api/clusters", "/api/select", "/api/select/entities"}

\* ------------------------------------------------------------------ claims

\* C1: in every reachable state, under any interleaving of the lifecycle calls,
\* configured implies started and started implies loaded.
C1_StateMonotonic ==
  /\ plugin.configured => plugin.started
  /\ plugin.started => plugin.loaded

\* C2: in every reachable state, a record whose platform handle is absent has
\* none of loaded, started and configured set.
C2_NoFlagWithoutPlatform ==
  plugin.platform = NoPlatform =>
    ~plugin.loaded /\ ~plugin.started /\ ~plugin.configured

\* C3: with Load and Shutdown in flight together in any interleaving, the
\* platform handle is bound exactly when loaded is true.
C3_PlatformIffLoaded ==
  (plugin.platform # NoPlatform) <=> plugin.loaded

\* C3 witness: a load that has bound its platform and a shutdown whose hook is
\* pending are suspended at the same time.
C3_Witness ==
  \E c, d \in Calls :
    /\ calls[c].op = "load" /\ calls[c].pc = "loadSchema"
    /\ calls[d].op = "shutdown" /\ calls[d].pc = "onShutdown"

\* C4: no two lifecycle calls on the record are past their guards at the same
\* time.
C4_MutualExclusion == Cardinality(InFlight) <= 1

\* C5: the start hook is invoked only while started is not true and no earlier
\* invocation of it is still pending.
C5_NoDoubleStart ==
  [][\A c \in Calls :
       OnStartStep(c) =>
         ~plugin.started /\ \A d \in Calls : calls[d].pc # "onStart"]_vars

\* C6: the factory is not invoked a second time by an overlapping Load once a
\* platform is bound, and a bound platform handle is never replaced by another.
C6_NoDoubleLoad ==
  [][/\ \A c \in Calls : FactoryStep(c) => plugin.platform = NoPlatform
     /\ (plugin.platform # NoPlatform /\ plugin'.platform # NoPlatform)
          => plugin'.platform = plugin.platform]_vars

C8_StartOnStartedIsNoOp ==
  [][plugin.started =>
       /\ \A c \in Calls : ~OnStartStep(c)
       /\ RefusedStep("start") =>
            /\ last'.res = "undefined"
            /\ plugin' = plugin /\ storage' = storage]_vars

\* C8 witness: a Start has returned "already started" on a started record.
C8_Witness ==
  /\ plugin.started
  /\ last.op = "start" /\ last.log = "already started" /\ last.res = "undefined"

\* C9 as stated: on a record that is loaded with its platform bound Shutdown is
\* never refused, and when its hook resolves loaded, started, configured and
\* the platform handle are cleared.
C9_ShutdownNeedsOnlyLoaded ==
  [][/\ (plugin.loaded /\ plugin.platform # NoPlatform) => ~RefusedStep("shutdown")
     /\ \A c \in Calls : ShutdownHookOkStep(c) =>
          /\ ~plugin'.loaded /\ ~plugin'.started /\ ~plugin'.configured
          /\ plugin'.platform = NoPlatform]_vars

\* C9 as amended: Shutdown gets past its guards only on a record that is loaded,
\* started and configured with its platform bound, and when its hook resolves
\* loaded, started, configured and the platform handle are cleared; on a record
\* that is not started or not configured it returns an absent result without
\* invoking the hook and leaves the record unchanged.
C9_ShutdownNeedsConfigured ==
  [][/\ \A c \in Calls : PassedStep(c, "shutdown") =>
          /\ plugin.loaded /\ plugin.started /\ plugin.configured
          /\ plugin.platform # NoPlatform
          /\ calls'[c].pc = "onShutdown"
     /\ RefusedStep("shutdown") =>
          /\ ~(plugin.loaded /\ plugin.started /\ plugin.configured
               /\ plugin.platform # NoPlatform)
          /\ last'.res = "undefined" /\ plugin' = plugin
     /\ \A c \in Calls : ShutdownHookOkStep(c) =>
          /\ ~plugin'.loaded /\ ~plugin'.started /\ ~plugin'.configured
          /\ plugin'.platform = NoPlatform]_vars

\* C9 witness: Shutdown has been refused as "not started" or "not configured"
\* on a record that is loaded with its platform bound.
C9_Witness ==
  /\ plugin.loaded /\ plugin.platform # NoPlatform
  /\ last.op = "shutdown" /\ last.res = "undefined"
  /\ last.log \in {"not started", "not configured"}

\* C10: when a Shutdown that got past its guards returns an absent result, the
\* record is still loaded, started and configured with its platform bound, as
\* it was when the call was made.
C10_FailedShutdownKeepsState ==
  [][\A c \in Calls :
       ShutdownFailedStep(c) =>
         /\ plugin'.loaded /\ plugin'.started /\ plugin'.configured
         /\ plugin'.platform # NoPlatform]_vars

\* C11: when the start, configure or shutdown hook of a plugin throws, the call
\* returns a value (nothing propagates to the caller) and the record has
\* error = true afterwards.
C11_HookThrowSetsError ==
  [][\A c \in Calls :
       (StartHookThrewStep(c) \/ ConfigureHookThrewStep(c)
          \/ ShutdownHookThrewStep(c)) =>
         last'.res \in ReturnValues /\ plugin'.error]_vars

\* C12: when the configure hook throws on a record that is loaded and started
\* with its platform bound and not yet configured, nothing is rolled back:
\* afterwards the record is still loaded and started with the same platform,
\* configured is not true, error is true, and the call has not saved the
\* configuration nor the registry.
C12_ConfigureThrowNoRollback ==
  [][\A c \in Calls :
       (/\ ConfigureHookThrewStep(c)
        /\ plugin.loaded /\ plugin.started /\ ~plugin.configured
        /\ plugin.platform # NoPlatform) =>
         /\ plugin'.loaded /\ plugin'.started /\ ~plugin'.configured
         /\ plugin'.error
         /\ plugin'.platform = plugin.platform
         /\ ~last'.saved /\ storage' = storage]_vars

\* C12 witness: a Configure has returned from a throwing hook and the record is
\* started, not configured and in error with its platform bound.
C12_Witness ==
  /\ last.op = "configure" /\ last.log = "failed to configure"
  /\ plugin.loaded /\ plugin.started /\ ~plugin.configured /\ plugin.error
  /\ plugin.platform # NoPlatform

\* C13: when a Load that got past its guards (record enabled, platform absent)
\* returns an absent result, the record has error = true, its platform is
\* absent and loaded is not true.
C13_FailedLoadLeavesUnloaded ==
  [][\A c \in Calls :
       LoadFailedStep(c) =>
         /\ plugin'.error
         /\ plugin'.platform = NoPlatform
         /\ ~plugin'.loaded]_vars

C15_EndToEnd ==
  /\ (NoCallInFlight /\ last.log = "configured") =>
       /\ plugin.loaded /\ plugin.started /\ plugin.configured
       /\ plugin.platform # NoPlatform
       /\ ~plugin.error
  /\ (NoCallInFlight /\ last.log = "shutdown completed") =>
       /\ ~plugin.loaded /\ ~plugin.started /\ ~plugin.configured
       /\ ~plugin.connected
       /\ plugin.registeredDevices = NoCount
       /\ plugin.addedDevices = NoCount
       /\ plugin.platform = NoPlatform

\* C15 witness: the run load, start, configure, shutdown has completed on the
\* enabled record.
C15_Witness ==
  /\ NoCallInFlight /\ plugin.enabled
  /\ last.op = "shutdown" /\ last.log = "shutdown completed"
  /\ last.res = "plugin"

C17_StoredHasNoTransientField ==
  \A i \in DOMAIN stored :
    /\ DOMAIN stored[i] \cap TransientFields = {}
    /\ DOMAIN stored[i] = PersistedFields

\* C17 witness: the registry was saved while a record of it was loaded, with
\* its platform, counters, configJson and schemaJson set.
C17_Witness ==
  \E i \in DOMAIN registry \cap DOMAIN stored :
    /\ registry[i].rec.loaded /\ registry[i].rec.platform # NoPlatform
    /\ registry[i].rec.registeredDevices = 0
    /\ registry[i].rec.configJson # NoJson /\ registry[i].rec.schemaJson # NoJson
    /\ stored[i].type = "Platform"
    /\ stored[i] = PersistedRecord(registry[i].rec)

\* C18: loading the stored array into an empty registry and saving it back
\* gives the same array (same objects, same order), and doing so a second
\* time changes nothing.
C18_RoundTrip ==
  /\ RoundTrip(stored) = stored
  /\ RoundTrip(RoundTrip(stored)) = RoundTrip(stored)

\* C19 as stated: every call of add, remove, enable, disable, parse or load
\* that changes a persisted field of a record, or adds or removes a record,
\* has saved the whole registry when it returns.
C19_EveryMutationSaves ==
  [][((MutatorStep \/ RefreshStep)
        /\ SavedList(registry') # SavedList(registry)) =>
       stored' = SavedList(registry')]_vars

\* C19 as amended: every call of add, remove, enable or disable that changes
\* the registry has saved the whole registry when it returns; parse and load
\* refresh the metadata of the record in memory and save nothing.
C19_MutatorsSave ==
  [][/\ (MutatorStep /\ registry' # registry) =>
          stored' = SavedList(registry')
     /\ RefreshStep => stored' = stored]_vars

\* C19 witness: a record's version was refreshed in memory from its changed
\* package.json and the stored array still has the old one.
C19_Witness ==
  \E i \in DOMAIN registry \cap DOMAIN stored :
    /\ stored[i].path = registry[i].rec.path
    /\ stored[i].version # registry[i].rec.version

\* C20: the registry has at most one record per name, and every record is
\* stored under the key equal to its name field.
C20_KeyIsName ==
  /\ \A i \in DOMAIN registry : registry[i].key = registry[i].rec.name
  /\ \A i, j \in DOMAIN registry :
       registry[i].rec.name = registry[j].rec.name => i = j

\* The package.json that input leads to cannot be read or declares no name.
Unresolvable(input) ==
  ~manifest[PathOf(input)].readable \/ manifest[PathOf(input)].name = NoName

\* The package.json that input leads to names a key of the registry.
NamesRegistered(input) == HasKey(registry, manifest[PathOf(input)].name)

\* The caller got null, and the registry and the stored array are as before.
Refused == returned'.value = Null /\ UNCHANGED <<registry, stored>>

\* C21 as stated: add, enable, disable and remove return null, leave the
\* registry unchanged and write nothing when called with an empty string,
\* with a name or path whose package.json cannot be resolved or has no name,
\* with (enable, disable, remove) a package.json naming an unregistered
\* plugin, or with (add) one naming a registered plugin.
C21_RefusalIsNoOp ==
  [][\A op \in RegistryOps, input \in Inputs :
       (/\ RegistryCall(op, input)
        /\ \/ input = ""
           \/ Unresolvable(input)
           \/ op = "add" /\ NamesRegistered(input)
           \/ op # "add" /\ ~NamesRegistered(input))
       => Refused]_vars

\* C21 as amended: the same, except that enable, disable and remove look at
\* the package.json only when the argument is not itself a key of the
\* registry; called with a key they act on its record whatever has become of
\* the package.json.
C21_RefusalUnlessKey ==
  [][\A op \in RegistryOps, input \in Inputs :
       (/\ RegistryCall(op, input)
        /\ \/ input = ""
           \/ op = "add" /\ (Unresolvable(input) \/ NamesRegistered(input))
           \/ /\ op # "add"
              /\ ~HasKey(registry, input)
              /\ (Unresolvable(input) \/ ~NamesRegistered(input)))
       => Refused]_vars

\* C21 witness: a call with the path of a package.json that declares no name
\* returned null while the registry held a record.
C21_Witness ==
  /\ returned.op \in RegistryOps /\ returned.value = Null
  /\ returned.input \in Paths
  /\ manifest[returned.input] = Nameless
  /\ registry # <<>>

\* C22: for every parseable envelope that fails the validation (id not a
\* number, dst, src or method missing or empty, params not an object, dst not
\* 'Matterbridge') the dispatcher writes exactly one envelope, to the sending
\* client, with error set, id and method as received, src 'Matterbridge' and
\* dst the src received, and runs no method handler: nothing is awaited or
\* spawned.
C22_InvalidEnvelopeRejected ==
  (IsEnvelope(wslast.message) /\ ~WellFormed(wslast.message.data)) =>
    /\ wslast.step = "returned" /\ wslast.spawned = 0
    /\ Len(wslast.replies) = 1
    /\ wslast.replies[1].to = wslast.client
    /\ IsError(wslast.replies[1].envelope)
    /\ wslast.replies[1].envelope.error = Str("Invalid message")
    /\ Correlated(wslast.replies[1].envelope, wslast.message.data)

\* C22 witness: a clusters request addressed to 'Frontend' instead of the
\* host was answered.
C22_Witness ==
  /\ IsEnvelope(wslast.message)
  /\ wslast.message.data.dst = Str("Frontend")
  /\ wslast.message.data.method = Str("/api/clusters")
  /\ Len(wslast.replies) = 1

\* C23: every envelope the dispatcher writes in reply to a request has the
\* id and the method of that request, src 'Matterbridge', dst the src of the
\* request, and exactly one of response and error, whatever the method and
\* the outcome.
C23_ReplyEchoesRequest ==
  \A i \in DOMAIN wslast.replies :
    /\ Correlated(wslast.replies[i].envelope, wslast.message.data)
    /\ IsError(wslast.replies[i].envelope)
         # IsResponse(wslast.replies[i].envelope)

\* C23 witness: the catch callback of a spawned command has written its
\* envelope, long after the handler returned.
C23_Witness ==
  /\ wslast.step = "settled"
  /\ Len(wslast.replies) = 1
  /\ IsError(wslast.replies[1].envelope)

\* C24: a valid envelope with method 'ping' and id n is answered on the same
\* connection by exactly one envelope with id n, method 'ping' and response
\* 'pong'; the registry, the plugin records and the calls in flight are as
\* before.
C24_PingPong ==
  [][Answered("ping")' =>
       /\ wslast'.step = "returned"
       /\ wslast'.replies =
            <<Written(wslast'.client,
                [id |-> wslast'.message.data.id, method |-> Str("ping"),
                 src |-> Str("Matterbridge"),
                 dst |-> wslast'.message.data.src,
                 response |-> Str("pong")])>>
       /\ UNCHANGED <<registry, stored, plugin, inflight>>]_vars

\* C24 witness: the second client got its pong while a command spawned for
\* the first one was running.
C24_Witness ==
  /\ Answered("ping") /\ wslast.client = "c2"
  /\ Len(wslast.replies) = 1 /\ wslast.replies[1].to = "c2"
  /\ \E h \in BagToSet(inflight) : h.client = "c1" /\ h.pc = "npm"

\* C25: a valid envelope whose method is none of the recognized ones is
\* answered by exactly one error envelope 'Invalid method' with its id and
\* method; it is never dropped.
C25_UnknownMethodAnswered ==
  (/\ IsEnvelope(wslast.message)
   /\ WellFormed(wslast.message.data)
   /\ wslast.message.data.method.string \notin RecognizedMethods) =>
    /\ wslast.step = "returned"
    /\ Len(wslast.replies) = 1
    /\ wslast.replies[1].to = wslast.client
    /\ IsError(wslast.replies[1].envelope)
    /\ wslast.replies[1].envelope.error = Str("Invalid method")
    /\ Correlated(wslast.replies[1].envelope, wslast.message.data)

\* C25 witness: '/api/reboot' was answered.
C25_Witness ==
  /\ Answered("/api/reboot")
  /\ Len(wslast.replies) = 1

\* C26: for a message that is not parsable JSON the dispatcher sends nothing,
\* changes nothing of the host (registry, plugin records, calls in flight)
\* and the handler's promise resolves.
C26_GarbageIgnored ==
  [][(wslast'.message = Garbage /\ wslast'.step # "none") =>
       /\ wslast'.step = "returned"
       /\ wslast'.replies = <<>> /\ wslast'.spawned = 0
       /\ UNCHANGED <<lifeVars, regVars, returned, inflight>>]_vars

\* C26 witness: a message that is not JSON arrived while a handler call was
\* suspended, and the handler returned.
C26_Witness ==
  /\ wslast.message = Garbage /\ wslast.step = "returned"
  /\ wslast.client = "c1"
  /\ inflight # EmptyBag

\* C27: every parseable envelope that names a method other than
\* '/api/restart' and '/api/shutdown' gets exactly one envelope written to
\* the client it came from: once the handler call has ended (and the command
\* it spawned, if any, has exited) one reply was written, also when a storage
\* read or an enumeration inside the handler failed.
C27_EveryEnvelopeAnswered ==
  (/\ IsEnvelope(wslast.message)
   /\ IsString(wslast.message.data.method)
   /\ wslast.message.data.method.string \notin {"/api/restart", "/api/shutdown"}
   /\ wslast.step \in {"returned", "rejected", "settled"}
   /\ wslast.spawned = 0) =>
    /\ Len(wslast.replies) = 1
    /\ wslast.replies[1].to = wslast.client

\* C28: no envelope the dispatcher writes in reply has 0, 1 or 2 as its id,
\* whatever the inbound envelope.
C28_NoReservedIdInReply ==
  \A i \in DOMAIN wslast.replies :
    Field(wslast.replies[i].envelope, "id")
      \notin {Num(WS_ID_LOG), Num(WS_ID_REFRESH_NEEDED), Num(WS_ID_RESTART_NEEDED)}

\* The packageName of the last message is a string of at least 10 characters.
PackageNamed ==
  LET name == wslast.message.data.params.object.packageName
  IN  IsString(name) /\ Len(name.string) >= 10

\* C29: '/api/install' and '/api/uninstall' with a packageName that is not a
\* string of at least 10 characters are answered at once by one error
\* envelope and spawn nothing; with a valid packageName the handler spawns
\* one process and returns without a reply, leaving the process running;
\* when the process exits exactly one envelope with the id of the request is
\* written to its client, with response when it succeeded and error when it
\* failed, and the process is no longer running.
C29_PackageCommands ==
  [][/\ (Answered("/api/install") \/ Answered("/api/uninstall"))' =>
          /\ (~PackageNamed' =>
                /\ wslast'.step = "returned" /\ wslast'.spawned = 0
                /\ Len(wslast'.replies) = 1
                /\ wslast'.replies[1].to = wslast'.client
                /\ IsError(wslast'.replies[1].envelope)
                /\ Correlated(wslast'.replies[1].envelope, wslast'.message.data))
          /\ ((PackageNamed' /\ wslast'.step # "settled") =>
                /\ wslast'.step = "returned" /\ wslast'.spawned = 1
                /\ wslast'.replies = <<>>
                /\ BagCardinality(inflight') = BagCardinality(inflight) + 1
                /\ BagIn(Pending(wslast'.client, wslast'.message.data, "npm", 1),
                         inflight'))
          /\ (wslast'.step = "settled" => PackageNamed')
     /\ \A h \in BagToSet(inflight), ok \in BOOLEAN :
          SpawnSettles(h, ok) =>
            /\ h.data.method.string \in {"/api/install", "/api/uninstall"}
            /\ wslast'.spawned = 0
            /\ Len(wslast'.replies) = 1
            /\ wslast'.replies[1].to = h.client
            /\ Correlated(wslast'.replies[1].envelope, h.data)
            /\ IF ok THEN IsResponse(wslast'.replies[1].envelope)
                     ELSE IsError(wslast'.replies[1].envelope)
            /\ BagCardinality(inflight') = BagCardinality(inflight) - 1]_vars

\* C29 witness: while the commands of two install requests were running, a
\* ping was answered.
C29_Witness ==
  /\ Answered("ping") /\ Len(wslast.replies) = 1
  /\ BagCardinality(inflight) = 2
  /\ \A h \in BagToSet(inflight) :
       h.pc = "npm" /\ h.data.method = Str("/api/install")

\* The params of the last message are valid for '/api/clusters': plugin a
\* string of at least 10 characters, endpoint a number of at least 1.
ClusterParamsValid ==
  LET params == wslast.message.data.params.object
  IN  /\ IsString(params.plugin) /\ Len(params.plugin.string) >= 10
      /\ IsNumber(params.endpoint) /\ params.endpoint.number >= 1

\* No device has the plugin and the endpoint number the last message asks for.
NoDeviceMatches ==
  LET params == wslast.message.data.params.object
  IN  \A i \in DOMAIN Devices :
        ~(/\ params.plugin = Str(Devices[i].plugin)
          /\ params.endpoint = Num(Devices[i].number))

\* C30: '/api/clusters' with valid params that match no device is answered
\* by one envelope whose response is the empty list and that has no error;
\* with an invalid plugin or endpoint it is answered by one error envelope
\* that carries no cluster data.
C30_ClustersEmptyOrError ==
  Answered("/api/clusters") =>
    /\ wslast.step = "returned"
    /\ Len(wslast.replies) = 1
    /\ wslast.replies[1].to = wslast.client
    /\ Correlated(wslast.replies[1].envelope, wslast.message.data)
    /\ ((ClusterParamsValid /\ NoDeviceMatches) =>
          /\ IsResponse(wslast.replies[1].envelope)
          /\ wslast.replies[1].envelope.response = Arr(<<>>))
    /\ (~ClusterParamsValid =>
          /\ IsError(wslast.replies[1].envelope)
          /\ DOMAIN wslast.replies[1].envelope
               = {"id", "method", "src", "dst", "error"})

\* C30 witness: the clusters of endpoint 7 of the plugin that has a device
\* at endpoint 1 were asked for, and the answer was the empty list.
C30_Witness ==
  /\ Answered("/api/clusters")
  /\ wslast.message.data.params.object.plugin = Str(EvePlugin)
  /\ wslast.message.data.params.object.endpoint = Num(7)
  /\ Len(wslast.replies) = 1
  /\ IsResponse(wslast.replies[1].envelope)

\* C31: the reply to '/api/login' is the response {valid: true} exactly when
\* the stored password is empty or equal to params.password; every other
\* reply to it, the one without a nodeContext included, is an error envelope.
C31_LoginValidIffPassword ==
  [][/\ \A h \in BagToSet(inflight), storedPassword \in StoredPasswords :
          LoginResume(h, TRUE, storedPassword) =>
            /\ Len(wslast'.replies) = 1
            /\ wslast'.replies[1].to = h.client
            /\ Correlated(wslast'.replies[1].envelope, h.data)
            /\ IF storedPassword = ""
                    \/ h.data.params.object.password = Str(storedPassword)
                 THEN /\ IsResponse(wslast'.replies[1].envelope)
                      /\ wslast'.replies[1].envelope.response
                           = Obj([valid |-> Bool(TRUE)])
                 ELSE IsError(wslast'.replies[1].envelope)
     /\ (/\ Answered("/api/login")' /\ wslast'.step = "returned"
         /\ inflight' = inflight) =>
          /\ Len(wslast'.replies) = 1
          /\ IsError(wslast'.replies[1].envelope)]_vars

\* C31 witness: a login that sent a password other than the stored one was
\* answered.
C31_Witness ==
  /\ Answered("/api/login") /\ wslast.step = "returned"
  /\ wslast.message.data.params.object.password = Str("wrong")
  /\ Len(wslast.replies) = 1
  /\ IsError(wslast.replies[1].envelope)
  /\ wslast.replies[1].envelope.error = Str("Wrong password")

\* A restart or a shutdown of the process was asked for: the handler is
\* suspended in restartProcess() or shutdownProcess(), or has returned from it.
ShutdownRequested ==
  \/ \E h \in BagToSet(inflight) : h.pc \in {"restart", "shutdown"}
  \/ Answered("/api/restart") \/ Answered("/api/shutdown")

\* C32: once '/api/restart' or '/api/shutdown' was handled, no call of load,
\* start or configure gets past its guards on the record.
C32_NoLifecycleAfterShutdownRequest ==
  [][ShutdownRequested =>
       \A c \in Calls : \A op \in {"load", "start", "configure"} :
         ~PassedStep(c, op)]_vars

\* In this step a call of op returns.
ReturnStep(op) == last' # last /\ last'.op = op

\* C33: the error flag of the record, once set, stays set through every
\* successful load, start and configure and is reset only by a shutdown that
\* succeeds: it goes from true to false only in a shutdown call past its
\* hook, and the shutdown call that has reset it returns the record.
C33_ErrorSticky ==
  [][/\ (plugin.error /\ ~plugin'.error) =>
          \E c \in Calls : calls[c].op = "shutdown" /\ calls[c].pc = "onShutdown"
     /\ (plugin.error
           /\ \E op \in {"load", "start", "configure"} :
                ReturnStep(op) /\ last'.res \in {"plugin", "platform"}) =>
          plugin'.error
     /\ ((cleared \/ (plugin.error /\ ~plugin'.error)) /\ ReturnStep("shutdown")) =>
          last'.res = "plugin"]_vars

\* The key enable, disable and remove address when called with input: input
\* itself when it is a key, the name in the package.json it resolves to
\* otherwise.
AddressedKey(input) ==
  IF HasKey(registry, input) THEN input ELSE manifest[PathOf(input)].name

\* C34: enable and disable change nothing but the enabled field of the
\* record they address: loaded, started, configured, error, the platform and
\* every other record stay as they are, no lifecycle call is started and no
\* hook runs; remove takes the addressed record out of the registry, leaves
\* the other records as they are and starts no shutdown call.
C34_EnableDisableFrame ==
  [][/\ \A b \in BOOLEAN, input \in Inputs :
          EnableOrDisable(b, input) =>
            /\ UNCHANGED lifeVars
            /\ \/ registry' = registry
               \/ \E i \in DOMAIN registry :
                    /\ registry[i].key = AddressedKey(input)
                    /\ registry' = [registry EXCEPT ![i].rec.enabled = b]
     /\ \A input \in Inputs :
          remove(input) =>
            /\ UNCHANGED lifeVars
            /\ \/ registry' = registry
               \/ registry' = SelectSeq(registry,
                                 LAMBDA e : e.key # AddressedKey(input))]_vars

\* C34 witness: a loaded record with its platform bound was disabled, and
\* another record is registered beside it.
C34_Witness ==
  /\ Len(registry) = 2
  /\ \E i \in DOMAIN registry :
       /\ ~registry[i].rec.enabled
       /\ registry[i].rec.loaded
       /\ registry[i].rec.platform # NoPlatform

\* The names and the enabled values of a list of records, in their order.
NamesAndEnabled(list) ==
  [i \in DOMAIN list |-> <<list[i].name, list[i].enabled>>]

Identified(msg) == msg.parses /\ msg.hasId

\* What the claim C36 says of the handling of msg, apart from a message
\* without id: a log record reaches no listener, a message with another id
\* reaches every registered listener once, in the order of registration, and
\* the pushes set their flags.
DispatchedAsClaimed(msg) ==
  /\ (Identified(msg) /\ msg.id = WS_ID_LOG) => console'.notified = <<>>
  /\ (Identified(msg) /\ msg.id # WS_ID_LOG) =>
       console'.notified = console.listeners
  /\ (Identified(msg) /\ msg.id = WS_ID_REFRESH_NEEDED) => console'.refresh
  /\ (Identified(msg) /\ msg.id = WS_ID_RESTART_NEEDED) => console'.restart

\* msg has no id.
WithoutId(msg) == msg.parses /\ ~msg.hasId

C37_ReconnectBounded ==
  [][/\ console'.scheduled <= maxRetries - 1
     /\ console'.scheduled = console.scheduled + 1 =>
          /\ console'.closes = console'.scheduled
          /\ console'.reconnect = Timer(console'.closes)
     /\ (console.readyState # "open" /\ console'.readyState = "open") =>
          console'.retryCount = 1
     /\ console.retryCount >= maxRetries =>
          /\ console'.scheduled <= console.scheduled
          /\ console'.reconnect.armed => console.reconnect.armed]_vars

\* C37 witness: maxRetries closes in a row, maxRetries - 1 reconnects were
\* scheduled and have run, and nothing is scheduled any more.
C37_Witness ==
  /\ console.readyState = "closed"
  /\ console.closes = maxRetries
  /\ console.scheduled = maxRetries - 1
  /\ console.retryCount = maxRetries + 1
  /\ ~console.reconnect.armed

\* C38: the message buffer never holds more than maxMessages entries, after
\* any sequence of received log records and local logMessage calls.
C38_BufferBounded == console.messages <= maxMessages

\* The ids that the host uses for its pushes.
ReservedIds == {WS_ID_LOG, WS_ID_REFRESH_NEEDED, WS_ID_RESTART_NEEDED}

\* C39: the id the client generates is an integer in [IdLow, IdHigh], it is
\* the id of every message sent without an id of its own, and it is none of
\* the reserved identifiers 0, 1 and 2.
C39_GeneratedIdInRange ==
  [][/\ console.uniqueId \in IdLow .. IdHigh
     /\ console.uniqueId \notin ReservedIds
     /\ console'.uniqueId = console.uniqueId
     /\ SendMessageCalled(FALSE) =>
          /\ console'.sent = <<[id |-> console.uniqueId, method |-> "request"]>>
          /\ console'.sent[1].id \notin ReservedIds]_vars

\* C39 witness: the largest id was drawn and stamped on a request sent
\* without an id.
C39_Witness ==
  console.sent = <<[id |-> IdHigh, method |-> "request"]>>

\* The ping of the client c.
PingOf(c) == [id |-> c.uniqueId, method |-> "ping"]

\* msg is a pong with the id of the client.
IsPong(msg) == Identified(msg) /\ msg.id = console.uniqueId /\ msg.pong

\* C40: while the connection is open a ping is sent every
\* pingIntervalSeconds and arms the one offline timer for
\* offlineTimeoutSeconds; a pong with the id of the client cancels the timer
\* and online is set to false only by a close or by the timer when it is due;
\* the timer that is due sets online to false; while the connection is not
\* open neither the ping interval nor the offline timer is set, so that no
\* ping is sent and no offline timer fires.
C40_PingAndOffline ==
  [][/\ (console.readyState = "open") = console.pingInterval.armed
     /\ console.offlineTimeout.armed => console.readyState = "open"
     /\ PingDue =>
          /\ console.readyState = "open"
          /\ console'.sent = <<PingOf(console)>>
          /\ console'.offlineTimeout = Timer(offlineTimeoutSeconds)
          /\ console'.pingInterval = Timer(pingIntervalSeconds)
     /\ console'.sent # console.sent /\ console'.sent = <<PingOf(console)>> =>
          IsDue(console.pingInterval)
     /\ \A msg \in IncomingMessages(console.uniqueId) :
          onmessage(msg) /\ IsPong(msg) =>
            ~console'.offlineTimeout.armed /\ console'.online
     /\ (console.online /\ ~console'.online) =>
          \/ console'.readyState = "closed"
          \/ IsDue(console.offlineTimeout)
     /\ OfflineDue => ~console'.online /\ console.readyState = "open"
     /\ console'.readyState = "closed" =>
          ~console'.pingInterval.armed /\ ~console'.offlineTimeout.armed]_vars

\* C40 witness: a ping was sent on the open connection, no pong came in
\* offlineTimeoutSeconds, and the client is offline until the next ping.
C40_Witness ==
  /\ console.readyState = "open"
  /\ ~console.online
  /\ console.sent = <<PingOf(console)>>
  /\ console.pingInterval = Timer(pingIntervalSeconds - offlineTimeoutSeconds)
  /\ ~console.offlineTimeout.armed

====
